---- MODULE Spec2Model ----
(***************************************************************************)
(* decodense: atom-, EDA- and bond-wise decomposition of mean-field        *)
(* energies and dipole moments (properties.prop_tot, decodense.main).      *)
(*                                                                         *)
(* Number conventions.  Population weights are multiples of 1/WUnit, so a  *)
(* weight of 1 is the integer WUnit.  Density matrices are kept in units   *)
(* of 1/WUnit (an orbital density occ*c*c^T is stored as WUnit*occ*c*c^T), *)
(* so that multiplying by a weight w/WUnit is the exact integer            *)
(* (stored * w) / WUnit.  Energies and dipoles are kept in units of        *)
(* 1/(2*WUnit): the factor 2 is the place of the scaling .5 of _trace.     *)
(* Inverse distances are multiples of 1/InvUnit.                           *)
(***************************************************************************)
EXTENDS Integers, Sequences, FiniteSets, TLC

\* ------------------------------------------------------------------ bounds
\* number of atoms of the molecule
NAtm == 2
\* largest number of occupied orbitals per spin
MaxOcc == 2
\* grid points of the DFT quadrature
NGrid == 2
\* largest value lib.num_threads() reports
MaxThreads == 2
\* largest nuclear charge
MaxZ == 2
\* largest internuclear distance (distances are 1..MaxDist)
MaxDist == 2

\* weights are multiples of one half
WUnit == 1 + 1
\* basis functions: one more than atoms, so that one atom carries two
NAo == NAtm + 1

Atoms == 0 .. (NAtm - 1)
AOs == 0 .. (NAo - 1)
MOs == 0 .. (NAo - 1)
Spins == {0, 1}
Grid == 0 .. (NGrid - 1)
Xyz == 0 .. 2
Calls == {1, 2}

\* ----------------------------------------------------------------- helpers
RECURSIVE SumOver(_, _)
SumOver(f, S) ==
    IF S = {} THEN 0
    ELSE LET e == CHOOSE e \in S : TRUE IN f[e] + SumOver(f, S \ {e})

\* sum of the entries of an array
Sum(f) == SumOver(f, DOMAIN f)

Len0(f) == Cardinality(DOMAIN f)

Min2(a, b) == IF a < b THEN a ELSE b

RECURSIVE Gcd(_, _)
Gcd(a, b) == IF b = 0 THEN a ELSE Gcd(b, a % b)

RECURSIVE LcmUpTo(_)
LcmUpTo(n) == IF n <= 1 THEN 1 ELSE (LcmUpTo(n - 1) * n) \div Gcd(LcmUpTo(n - 1), n)

\* 1/r is the integer InvUnit \div r, exact for every r in 1..MaxDist+1
InvUnit == LcmUpTo(MaxDist + 1)

\* An array as an explicit table of its entries (the same function: TLC
\* then computes each entry once, not at every use)
RECURSIVE TabOver(_, _)
TabOver(f, S) ==
    IF S = {} THEN <<>>
    ELSE LET e == CHOOSE e \in S : TRUE IN (e :> f[e]) @@ TabOver(f, S \ {e})
Tab(f) == TabOver(f, DOMAIN f)
Tab2(m) == Tab([p \in DOMAIN m |-> Tab(m[p])])

\* the zero matrix and matrix arithmetic (numpy element-wise operations)
ZeroMat == [p \in AOs |-> [q \in AOs |-> 0]]
MatAdd(a, b) == Tab2([p \in AOs |-> [q \in AOs |-> a[p][q] + b[p][q]]])
MatSub(a, b) == Tab2([p \in AOs |-> [q \in AOs |-> a[p][q] - b[p][q]]])
MatScale(a, k) == Tab2([p \in AOs |-> [q \in AOs |-> a[p][q] * k]])
\* multiplication by the weight w/WUnit
MatWeight(a, w) == Tab2([p \in AOs |-> [q \in AOs |-> (a[p][q] * w) \div WUnit]])


\* ------------------------------------------------------------------ inputs
\* One call of prop_tot is described by a record x of its arguments:
\*   prop_type, part, multiproc, ref, dft, mm, solv   the options
\*   nocc        occupied orbitals per spin (mol.alpha, mol.beta)
\*   has_weights, wbase, wrev                          kwargs['weights']
\*   has_rep_idx, grouped                              kwargs['rep_idx']
\*   has_origin, dipole_origin                         kwargs['dipole_origin']
\*   gauge_origin                                      kwargs['gauge_origin']
\*   charges, pos                                      the nuclei
\*   nthreads                                          lib.num_threads()

\* mol.alpha, mol.beta: the indices of the occupied orbitals of each spin
SpinMo(x, s) == [m \in 0 .. (x.nocc[s] - 1) |-> m]

\* mo_occ[s]: occupation 1 of the occupied spin-orbitals, 0 of the others
MoOcc(x, s) == [j \in MOs |-> IF j < x.nocc[s] THEN 1 ELSE 0]

\* mo_coeff[s][p, j]: the coefficient of basis function p in orbital j; a
\* restricted reference has one set of orbitals for both spins
MoCoeff(x, s) ==
    LET t == IF x.ref = "restricted" THEN 0 ELSE s
    IN  Tab2([p \in AOs |-> [j \in MOs |->
              ((p * (j + 1) + j + t) % 3) - (IF p = j THEN 1 ELSE 0)]])

\* the weight vector of the orbital at position m of a spin: the base
\* vector moved round the atoms by m places
RotVec(v, m) == [a \in Atoms |-> v[(a + m) % NAtm]]
RevVec(v) == [a \in Atoms |-> v[(NAtm - 1) - a]]

\* kwargs['weights']: per spin the list, one entry per occupied orbital,
\* of the orbital's weights on the atoms; with wrev the orbitals of a spin
\* share one vector, the beta one being the alpha one reversed
Weights(x) ==
    [s \in Spins |->
        [m \in 0 .. (x.nocc[s] - 1) |->
            IF x.wrev
            THEN IF s = 1 THEN RevVec(x.wbase) ELSE x.wbase
            ELSE RotVec(x.wbase, m)]]

\* kwargs['rep_idx']: per spin the list of orbital groups; either one
\* group per occupied orbital, or all occupied orbitals of the spin in one
RepIdx(x) ==
    [s \in Spins |->
        IF x.grouped /\ x.nocc[s] > 0
        THEN [m \in {0} |-> 0 .. (x.nocc[s] - 1)]
        ELSE [m \in 0 .. (x.nocc[s] - 1) |-> {m}]]

\* mol.ao_labels(fmt=None): the atom each basis function is centred on
AoAtom(p) == IF p < NAtm THEN p ELSE NAtm - 1

\* mol.atom_coords(): the nuclei lie on the x axis
Coords(x) == [a \in Atoms |-> [d \in Xyz |-> IF d = 0 THEN x.pos[a] ELSE 0]]

Abs(n) == IF n < 0 THEN -n ELSE n

\* gto.inter_distance(mol): zero on the diagonal
InterDistance(x) == [a \in Atoms |-> [b \in Atoms |-> Abs(x.pos[a] - x.pos[b])]]

\* ------------------------------------------------------ operator provider
\* mol.intor_symmetric('int1e_kin')
KinInt == [p \in AOs |-> [q \in AOs |-> ((p * q + p + q) % 3) + 1]]

\* mol.intor('int1e_rinv') with the origin on atom k
RinvInt(k) == [p \in AOs |-> [q \in AOs |-> ((p * q + p + q + k) % 3) + 1]]

\* mf.get_jk(mol, dm): the Coulomb and exchange operators of each spin
VjInt(s) == [p \in AOs |-> [q \in AOs |-> ((p * q + p + q + s) % 3) + 1]]
VkInt(s) == [p \in AOs |-> [q \in AOs |-> ((p * q + s) % 2) + s]]

\* _mm_pot(mol, mm_mol): the potential of the MM charges
MmPotInt == [p \in AOs |-> [q \in AOs |-> -(((p + q) % 2) + 1)]]

\* _solvent(...): the atom-resolved continuum-solvation energies
ESolventInt == [a \in Atoms |-> 2 * WUnit * (a + 1)]

\* mol.intor_symmetric('int1e_r', comp=3): the dipole integrals
AoDipInt == [d \in Xyz |-> [p \in AOs |-> [q \in AOs |-> ((p + q + d) % 3) - 1]]]

\* numint.eval_ao(mol, coords): the basis functions on the grid
AoValueInt == [g \in Grid |-> [p \in AOs |-> ((g + p) % 2) + g]]

\* mf.grids.weights
GridWeightsInt == [g \in Grid |-> g + 1]


\* mf.grids.coords derivatives: eval_ao with deriv=1 gives the values (0)
\* and the three first derivatives (1..3) of the basis functions
AoValueGga == [i \in 0 .. 3 |-> [g \in Grid |-> [p \in AOs |->
                  IF i = 0 THEN AoValueInt[g][p] ELSE ((g + p + i) % 3) - 1]]]

\* _ao_val(mol, mf.grids.coords, ao_deriv)
AoVal(xc_type) == IF xc_type = "LDA" THEN AoValueInt ELSE AoValueGga

\* dft.libxc.eval_xc(xc, rho)[0]: the energy density, a function of the
\* density at each grid point (the sum of both spins when polarised)
EvalXc(rho, xc_type, polarised) ==
    LET dens(r) == IF xc_type = "LDA" THEN r ELSE r[0]
    IN  Tab([g \in Grid |->
            1 + (IF polarised THEN dens(rho[0])[g] + dens(rho[1])[g]
                 ELSE dens(rho)[g])])

\* ------------------------------------------------------- density assembler
\* tools.make_rdm1(mo, occup): contract('ip,jp->ij', occup * mo, mo), in
\* units of 1/WUnit
MakeRdm1(mo, occup) ==
    Tab2([p \in AOs |-> [q \in AOs |->
        WUnit * Sum([j \in DOMAIN occup |-> occup[j] * mo[p][j] * mo[q][j]])]])

\* mo_coeff[i][:, j].reshape(nao, -1) and mo_occ[i][j] for the orbitals J
OrbCols(mo, J) == Tab2([p \in AOs |-> [j \in J |-> mo[p][j]]])
OrbOcc(occ, J) == [j \in J |-> occ[j]]

\* rdm1_tot: the total 1-RDM of each spin
Rdm1Tot(x) == Tab([s \in Spins |-> MakeRdm1(MoCoeff(x, s), MoOcc(x, s))])

\* np.sum(rdm1, axis=0)
SpinSum(r) == MatAdd(r[0], r[1])

\* op[select]: the rows of the basis functions in select
RowSel(m, select) == Tab([p \in select |-> m[p]])

\* ------------------------------------------------------ numeric primitives
\* contract('ij,ij', op, rdm1) over the rows and columns of op
Contract2AsMatrixProduct(op, rdm1) ==
    Sum([p \in DOMAIN op |-> Sum([q \in DOMAIN op[p] |-> op[p][q] * rdm1[q][p]])])
Contract2(op, rdm1) ==
    Sum([p \in DOMAIN op |-> Sum([q \in DOMAIN op[p] |-> op[p][q] * rdm1[p][q]])])

\* _trace(op, rdm1, scaling): scaling2 is twice the scaling (1 for .5,
\* 2 for 1.); the value is in units of 1/(2*WUnit)
Trace(op, ndim, rdm1, scaling2) ==
    IF ndim = 2
    THEN Contract2(op, rdm1) * scaling2
    ELSE [d \in DOMAIN op |-> Contract2(op[d], rdm1) * scaling2]

\* _e_xc(eps_xc, grid_weights, rho): contract('i,i,i->'), in units of
\* 1/(2*WUnit)
EXc(eps_xc, grid_weights, rho, rho_ndim) ==
    LET r == IF rho_ndim = 1 THEN rho ELSE rho[0]
    IN  2 * Sum([g \in Grid |-> eps_xc[g] * r[g] * grid_weights[g]])

\* _make_rho_interm1: c0 = ao_value . rdm1 (c1 is None for LDA and GGA)
MakeRhoInterm1(ao_value, rdm1, xc_type) ==
    LET ao == IF xc_type = "LDA" THEN ao_value ELSE ao_value[0]
    IN  Tab2([g \in Grid |-> [j \in AOs |-> Sum([k \in AOs |-> ao[g][k] * rdm1[k][j]])]])

\* _make_rho_interm2: rho from c0, over the basis functions c0 holds
MakeRhoInterm2(c0, ao_value, xc_type) ==
    LET dot(ao) == Tab([g \in Grid |-> Sum([i \in DOMAIN c0[g] |-> c0[g][i] * ao[g][i]])])
    IN  IF xc_type = "LDA"
        THEN dot(ao_value)
        ELSE Tab([i \in 0 .. 3 |->
                IF i = 0 THEN dot(ao_value[0])
                ELSE Tab([g \in Grid |-> 2 * dot(ao_value[i])[g]])])

\* _make_rho(ao_value, rdm1, ref, xc_type): c0 and rho; for a spin-stacked
\* rdm1 (ndim 3) the restricted branch doubles the alpha density and the
\* unrestricted branch returns the pair of spin densities
MakeRhoRestricted(ao_value, rdm1, xc_type) ==
    LET c0 == MakeRhoInterm1(ao_value, MatScale(rdm1[0], 2), xc_type)
    IN  [c0 |-> c0, rho |-> MakeRhoInterm2(c0, ao_value, xc_type), pair |-> FALSE]

MakeRho(ao_value, rdm1, ndim, ref, xc_type) ==
    IF ndim = 2
    THEN LET c0 == MakeRhoInterm1(ao_value, rdm1, xc_type)
         IN  [c0 |-> c0, rho |-> MakeRhoInterm2(c0, ao_value, xc_type), pair |-> FALSE]
    ELSE IF ref = "restricted"
    THEN MakeRhoRestricted(ao_value, rdm1, xc_type)
    ELSE LET c0s == [s \in Spins |-> MakeRhoInterm1(ao_value, rdm1[s], xc_type)]
         IN  [c0 |-> Tab2([g \in Grid |-> [j \in AOs |-> c0s[0][g][j] + c0s[1][g][j]]]),
              rho |-> Tab([s \in Spins |-> MakeRhoInterm2(c0s[s], ao_value, xc_type)]),
              pair |-> TRUE]


\* ---------------------------------------------------- structural operators
\* A floating-point value with a part n of ordinary size and a part t in
\* units of 1e-200: the double sum of both keeps t only when n is zero.
FloatOf(n, t) == IF n # 0 THEN [n |-> n, t |-> 0] ELSE [n |-> 0, t |-> t]

\* dist[np.diag_indices_from(dist)] = 1e200 and 1. / dist: the inverse
\* distances in units of 1/InvUnit, the diagonal in units of 1e-200
InvDistSelfAtUnitDistance(x) ==
    [a \in Atoms |-> [b \in Atoms |->
        IF a = b THEN [n |-> InvUnit, t |-> 0]
        ELSE [n |-> InvUnit \div InterDistance(x)[a][b], t |-> 0]]]
InvDist(x) ==
    [a \in Atoms |-> [b \in Atoms |->
        IF a = b THEN [n |-> 0, t |-> 1]
        ELSE [n |-> InvUnit \div InterDistance(x)[a][b], t |-> 0]]]

\* the MM region: one point charge on the x axis, left of every nucleus
MmCharge == -1
MmInvDist(x, a) == InvUnit \div (x.pos[a] + 1)

\* _e_nuc(mol, mm_mol), in units of 1/(2*InvUnit):
\* contract('i,ij,j->i', charges, 1. / dist, charges) * .5, plus the
\* interaction q * sum(mm_charges / r) with the MM sites
ENuc(x) ==
    [a \in Atoms |->
        LET inv == InvDist(x)
            n == Sum([b \in Atoms |-> x.charges[a] * inv[a][b].n * x.charges[b]])
            t == Sum([b \in Atoms |-> x.charges[a] * inv[a][b].t * x.charges[b]])
            mm == IF x.mm THEN 2 * x.charges[a] * MmCharge * MmInvDist(x, a) ELSE 0
        IN  FloatOf(n + mm, t)]

\* _dip_nuc(mol): contract('i,ix->ix', charges, coords), in units of
\* 1/(2*WUnit)
DipNuc(x) ==
    [a \in Atoms |-> [d \in Xyz |-> 2 * WUnit * x.charges[a] * Coords(x)[a][d]]]

\* prop_nuc_rep
PropNucRep(x) == IF x.prop_type = "energy" THEN ENuc(x) ELSE DipNuc(x)

\* _h_core: sub_nuc[k] = -1. * int1e_rinv * charges[k], nuc their sum
SubNuc(x, k) == MatScale(RinvInt(k), -1 * x.charges[k])

RECURSIVE MatSumOver(_, _)
MatSumOver(f, S) ==
    IF S = {} THEN ZeroMat
    ELSE LET e == CHOOSE e \in S : TRUE IN MatAdd(f[e], MatSumOver(f, S \ {e}))

NucOfFirstAtomOnly(x) == SubNuc(x, 0)
Nuc(x) == MatSumOver([k \in Atoms |-> SubNuc(x, k)], Atoms)

\* vj summed over the spins: np.sum(vj, axis=0)
VjSum == MatAdd(VjInt(0), VjInt(1))

\* effective atomic charges: pmol.atom_charges()
\*   - np.sum(weights[0] + weights[1], axis=0), in units of 1/WUnit; the
\* sum of two lists is their concatenation
ChargeAtomAlphaDoubled(x) ==
    LET w == Weights(x)
        pop(a) == 2 * Sum([m \in DOMAIN w[0] |-> w[0][m][a]])
    IN  [a \in Atoms |-> WUnit * x.charges[a] - pop(a)]
ChargeAtom(x) ==
    LET w == Weights(x)
        pop(a) == Sum([m \in DOMAIN w[0] |-> w[0][m][a]])
                  + Sum([m \in DOMAIN w[1] |-> w[1][m][a]])
    IN  [a \in Atoms |-> WUnit * x.charges[a] - pop(a)]

\* the xc intermediates of prop_tot: c0_tot and rho_tot of the total
\* density, and the energy density eps_xc on the grid
RhoTot(x) == MakeRho(AoVal(x.xc), Rdm1Tot(x), 3, x.ref, x.xc)
EpsXc(rho_tot, xc_type) == EvalXc(rho_tot.rho, xc_type, rho_tot.pair)
RhoNdim(xc_type) == IF xc_type = "LDA" THEN 1 ELSE 2

\* the locals of prop_tot that the kernels read as free variables: they
\* are computed once per call, before the kernels are defined
Env(x) ==
    LET rdm1_tot == Rdm1Tot(x)
        rho_tot == RhoTot(x)
    IN  [rdm1_tot |-> rdm1_tot,
         rdm1_sum |-> SpinSum(rdm1_tot),
         nuc |-> Nuc(x),
         c0_tot |-> IF x.xc = "" THEN <<>> ELSE rho_tot.c0,
         eps_xc |-> IF x.xc = "" THEN <<>> ELSE EpsXc(rho_tot, x.xc)]


\* ---------------------------------------------------------- partition kernel
\* decomp.COMP_KEYS: the six electronic terms, then 'struct' and 'el'
CompKeys == <<"coul", "exch", "kin", "nuc_att", "solvent", "xc", "struct", "el">>

\* COMP_KEYS[:-2]
ElKeysWithoutSolvent == {CompKeys[i] : i \in 1 .. (Len(CompKeys) - 2)} \ {"solvent"}
ElKeys == {CompKeys[i] : i \in 1 .. (Len(CompKeys) - 2)}

\* the outcome of one task: its result mapping, or the exception it raised
Ok(v) == [st |-> "ok", val |-> v]
Raised(e) == [st |-> e, val |-> [none |-> TRUE]]

\* rdm1_orb: the density of the orbitals J of spin s
Rdm1Orb(x, s, J) == MakeRdm1(OrbCols(MoCoeff(x, s), J), OrbOcc(MoOcc(x, s), J))

\* rdm1_atom of prop_atom: per spin the orbital densities, each times the
\* weight of the orbital on the atom
Rdm1AtomUnweighted(x, a) ==
    Tab([s \in Spins |->
        MatSumOver([m \in DOMAIN SpinMo(x, s) |-> Rdm1Orb(x, s, {SpinMo(x, s)[m]})],
                   DOMAIN SpinMo(x, s))])
Rdm1Atom(x, a) ==
    Tab([s \in Spins |->
        MatSumOver([m \in DOMAIN SpinMo(x, s) |->
                      MatWeight(Rdm1Orb(x, s, {SpinMo(x, s)[m]}), Weights(x)[s][m][a])],
                   DOMAIN SpinMo(x, s))])

\* res['el'] += res[comp_key] for comp_key in COMP_KEYS[:-2]
SumEl(r) == Sum([k \in ElKeys |-> r[k]])

\* the energy terms of prop_atom for one atom, from its rdm1_atom
AtomCoul(rdm1_atom) == Sum([s \in Spins |-> Trace(VjSum, 2, rdm1_atom[s], 1)])
AtomExch(rdm1_atom) == 0 - Sum([s \in Spins |-> Trace(VkInt(s), 2, rdm1_atom[s], 1)])
AtomKinHalved(rdm1_atom) == Trace(KinInt, 2, SpinSum(rdm1_atom), 1)
AtomKin(rdm1_atom) == Trace(KinInt, 2, SpinSum(rdm1_atom), 2)
AtomNucAttOwnDensityOnly(x, e, a, rdm1_atom) ==
    Trace(e.nuc, 2, SpinSum(rdm1_atom), 1)
AtomNucAtt(x, e, a, rdm1_atom) ==
    Trace(e.nuc, 2, SpinSum(rdm1_atom), 1) + Trace(SubNuc(x, a), 2, e.rdm1_sum, 1)
AtomSolvent(x, a, rdm1_atom) ==
    (IF x.mm THEN Trace(MmPotInt, 2, SpinSum(rdm1_atom), 2) ELSE 0)
    + (IF x.solv THEN ESolventInt[a] ELSE 0)
AtomXc(x, e, rdm1_atom) ==
    IF x.xc = "" THEN 0
    ELSE EXc(e.eps_xc, GridWeightsInt,
             MakeRho(AoVal(x.xc), SpinSum(rdm1_atom), 2, x.ref, x.xc).rho,
             RhoNdim(x.xc))

\* the exception prop_atom raises ("" if none): without weights the first
\* orbital of the loops raises NameError; in dipole mode res = {} and
\* res['el'] -= ... raises KeyError
AtomFault(x) ==
    IF ~x.has_weights /\ (x.nocc[0] > 0 \/ x.nocc[1] > 0) THEN "NameError"
    ELSE IF x.prop_type # "energy" THEN "KeyError"
    ELSE ""

\* prop_atom(atom_idx)
PropAtom(x, e, a) ==
    IF AtomFault(x) # "" THEN Raised(AtomFault(x))
    ELSE LET rdm1_atom == Rdm1Atom(x, a)
             r == [coul |-> AtomCoul(rdm1_atom), exch |-> AtomExch(rdm1_atom),
                   kin |-> AtomKin(rdm1_atom),
                   nuc_att |-> AtomNucAtt(x, e, a, rdm1_atom),
                   solvent |-> AtomSolvent(x, a, rdm1_atom),
                   xc |-> AtomXc(x, e, rdm1_atom)]
         IN  Ok([coul |-> r.coul, exch |-> r.exch, kin |-> r.kin,
                 nuc_att |-> r.nuc_att, solvent |-> r.solvent, xc |-> r.xc,
                 struct |-> PropNucRep(x)[a], el |-> SumEl(r)])


\* select of prop_eda: the basis functions centred on the atom
Select(a) == {p \in AOs : AoAtom(p) = a}

\* c0_tot[:, select] and ao_value[:, :, select]
ColSel(c, select) == Tab2([g \in Grid |-> [p \in select |-> c[g][p]]])
AoSel(ao_value, select) == Tab([i \in DOMAIN ao_value |-> ColSel(ao_value[i], select)])

\* the energy terms of prop_eda for one atom
EdaCoul(e, a) ==
    Sum([s \in Spins |->
           Trace(RowSel(VjSum, Select(a)), 2, RowSel(e.rdm1_tot[s], Select(a)), 1)])
EdaExch(e, a) ==
    0 - Sum([s \in Spins |->
               Trace(RowSel(VkInt(s), Select(a)), 2, RowSel(e.rdm1_tot[s], Select(a)), 1)])
EdaKin(e, a) ==
    Trace(RowSel(KinInt, Select(a)), 2, RowSel(e.rdm1_sum, Select(a)), 2)
EdaNucAtt(x, e, a) ==
    Trace(RowSel(e.nuc, Select(a)), 2, RowSel(e.rdm1_sum, Select(a)), 1)
    + Trace(SubNuc(x, a), 2, e.rdm1_sum, 1)
EdaSolvent(x, e, a) ==
    (IF x.mm
     THEN Trace(RowSel(MmPotInt, Select(a)), 2, RowSel(e.rdm1_sum, Select(a)), 2)
     ELSE 0)
    + (IF x.solv THEN ESolventInt[a] ELSE 0)
EdaXc(x, e, a) ==
    IF x.xc = "" THEN 0
    ELSE EXc(e.eps_xc, GridWeightsInt,
             MakeRhoInterm2(ColSel(e.c0_tot, Select(a)),
                            AoSel(AoVal(x.xc), Select(a)), x.xc),
             RhoNdim(x.xc))

\* the exception prop_eda raises ("" if none): with an LDA functional
\* ao_value has two axes and ao_value[:, :, select] raises IndexError; in
\* dipole mode res = {} and res['el'] -= ... raises KeyError
EdaFault(x) ==
    IF x.prop_type # "energy" THEN "KeyError"
    ELSE IF x.xc = "LDA" THEN "IndexError"
    ELSE ""

\* prop_eda(atom_idx)
PropEda(x, e, a) ==
    IF EdaFault(x) # "" THEN Raised(EdaFault(x))
    ELSE LET r == [coul |-> EdaCoul(e, a), exch |-> EdaExch(e, a),
                   kin |-> EdaKin(e, a), nuc_att |-> EdaNucAtt(x, e, a),
                   solvent |-> EdaSolvent(x, e, a), xc |-> EdaXc(x, e, a)]
         IN  Ok([coul |-> r.coul, exch |-> r.exch, kin |-> r.kin,
                 nuc_att |-> r.nuc_att, solvent |-> r.solvent, xc |-> r.xc,
                 struct |-> PropNucRep(x)[a], el |-> SumEl(r)])

\* the energy of prop_bonds for the density rdm1_orb of its orbitals
BondElExchangeOfBothSpins(x, e, s, rdm1_orb) ==
    Trace(MatSub(VjSum, MatAdd(VkInt(0), VkInt(1))), 2, rdm1_orb, 1)
    + Trace(MatAdd(KinInt, e.nuc), 2, rdm1_orb, 2)
    + (IF x.mm THEN Trace(MmPotInt, 2, rdm1_orb, 2) ELSE 0)
    + (IF x.xc = "" THEN 0
       ELSE EXc(e.eps_xc, GridWeightsInt,
                MakeRho(AoVal(x.xc), rdm1_orb, 2, x.ref, x.xc).rho,
                RhoNdim(x.xc)))
BondEl(x, e, s, rdm1_orb) ==
    Trace(MatSub(VjSum, VkInt(s)), 2, rdm1_orb, 1)
    + Trace(MatAdd(KinInt, e.nuc), 2, rdm1_orb, 2)
    + (IF x.mm THEN Trace(MmPotInt, 2, rdm1_orb, 2) ELSE 0)
    + (IF x.xc = "" THEN 0
       ELSE EXc(e.eps_xc, GridWeightsInt,
                MakeRho(AoVal(x.xc), rdm1_orb, 2, x.ref, x.xc).rho,
                RhoNdim(x.xc)))

\* the dipole of prop_bonds: -_trace(ao_dip, rdm1_orb)
BondDip(rdm1_orb) ==
    LET t == Trace(AoDipInt, 3, rdm1_orb, 2) IN [d \in Xyz |-> 0 - t[d]]

\* prop_bonds(spin_idx, orb_idx)
PropBonds(x, e, s, J) ==
    LET rdm1_orb == Rdm1Orb(x, s, J)
    IN  IF x.prop_type = "energy" THEN Ok([el |-> BondEl(x, e, s, rdm1_orb)])
        ELSE Ok([el |-> BondDip(rdm1_orb)])


\* ------------------------------------------------------------------- state
VARIABLES
    cfg,         \* per call: the arguments of prop_tot
    mpc,         \* per call: the position of main (the caller)
    pc,          \* per call: the position of prop_tot
    g_kernel,    \* module globals prop_atom, prop_eda, prop_bonds: the call
                 \* whose closure each name is bound to (0: unbound)
    fn,          \* per call: the call whose closure the map runs (0: none)
    res,         \* per call: the outcome of each task of the domain
    nxt,         \* per call: the next task of the domain to hand out
    busy,        \* per call: the task each pool worker runs (-1: idle)
    kc,          \* per call: the index of the collection loop
    prop,        \* per call: the arrays of prop
    slotsrc,     \* per call: the tasks whose result was stored in each slot
    ret,         \* per call: the mapping prop_tot returned
    exc,         \* per call: the exception prop_tot raised ("" if none)
    decomp_res,  \* per call: decomp.res of the caller
    order,       \* per call: the tasks in the order they were completed
    pbc,         \* the call of get_nuc_atomic_df or get_pp_atomic_df
    decomp,      \* per call: the configuration main was given
    tbl,         \* the call of results.table_bonds
    kernel,      \* per call: the name of the kernel handed to the map
    ranby,       \* per call: the kernel that ran each task, in starting order
    processes,   \* per call: the workers of the pool (0: no pool)
    written,     \* per call: the arrays of the caller that were stored into
    hcall,       \* the call of a helper function (_trace, _ref, ewald_e_nuc,
                 \* _RSNucBuilder.build, get_pp_loc_part1)
    mainrun      \* per call: the calls main has made so far, in order, and
                 \* the value main returned

\* the state outside prop_tot
libvars == <<pbc, decomp, tbl, hcall, mainrun>>

\* the record of the kernel and the pool of the map
mapvars == <<kernel, ranby, processes, written>>

vars == <<cfg, mpc, pc, g_kernel, fn, res, nxt, busy, kc, prop, slotsrc, ret,
          exc, decomp_res, order, libvars, mapvars>>

Workers == 1 .. MaxThreads
NoVal == [none |-> TRUE]
Pending == [st |-> "pending", val |-> NoVal]

\* the domain of the map: one task per atom, or one per (spin, group)
\* [(i, j) for i, _ in enumerate((mol.alpha, mol.beta)) for j in rep_idx[i]]
NTasks(x) ==
    IF x.part \in {"atoms", "eda"} THEN NAtm
    ELSE Len0(RepIdx(x)[0]) + Len0(RepIdx(x)[1])

Domain(x) ==
    IF x.part \in {"atoms", "eda"} THEN [k \in Atoms |-> [atom |-> k]]
    ELSE [k \in 0 .. (NTasks(x) - 1) |->
            IF k < Len0(RepIdx(x)[0])
            THEN [spin |-> 0, orb |-> RepIdx(x)[0][k]]
            ELSE [spin |-> 1, orb |-> RepIdx(x)[1][k - Len0(RepIdx(x)[0])]]]

\* domain.size: the atoms, or the entries of the array of (i, j) pairs
DomainSize(x) == IF x.part \in {"atoms", "eda"} THEN NAtm ELSE 2 * NTasks(x)

\* n_threads = min(domain.size, lib.num_threads())
NThreads(x) == Min2(DomainSize(x), x.nthreads)

\* prop_atom if part == 'atoms' else prop_eda, or prop_bonds
KernelNameAtomKernelsSwapped(x) ==
    IF x.part = "atoms" THEN "prop_eda"
    ELSE IF x.part = "eda" THEN "prop_atom" ELSE "prop_bonds"
KernelName(x) ==
    IF x.part = "atoms" THEN "prop_atom"
    ELSE IF x.part = "eda" THEN "prop_eda" ELSE "prop_bonds"

\* one task: the kernel named by the caller, as the closure of call o
\* (which reads the arguments xo of that call), applied to the unit
RunTask(kname, xo, unit) ==
    IF kname = "prop_atom" THEN PropAtom(xo, Env(xo), unit.atom)
    ELSE IF kname = "prop_eda" THEN PropEda(xo, Env(xo), unit.atom)
    ELSE PropBonds(xo, Env(xo), unit.spin, unit.orb)

\* the exception the tasks of the kernel raise ("" if none)
TaskFault(kname, xo) ==
    IF kname = "prop_atom" THEN AtomFault(xo)
    ELSE IF kname = "prop_eda" THEN EdaFault(xo)
    ELSE ""

\* prop as initialised before the map
FloatZero == [n |-> 0, t |-> 0]
Vec0 == [d \in Xyz |-> 0]
PropInit(x) ==
    IF x.part \in {"atoms", "eda"}
    THEN IF x.prop_type = "energy"
         THEN [coul |-> [k \in Atoms |-> 0], exch |-> [k \in Atoms |-> 0],
               kin |-> [k \in Atoms |-> 0], nuc_att |-> [k \in Atoms |-> 0],
               solvent |-> [k \in Atoms |-> 0], xc |-> [k \in Atoms |-> 0],
               struct |-> [k \in Atoms |-> FloatZero], el |-> [k \in Atoms |-> 0]]
         ELSE [struct |-> [k \in Atoms |-> Vec0], el |-> [k \in Atoms |-> Vec0]]
    ELSE [el |-> [s \in Spins |-> [m \in DOMAIN RepIdx(x)[s] |->
                    IF x.prop_type = "energy" THEN 0 ELSE Vec0]]]

\* the slots of prop: <<0, k>> for atom k, <<s, m>> for entry m of spin s
Slots(x) ==
    IF x.part \in {"atoms", "eda"} THEN {<<0, k>> : k \in Atoms}
    ELSE {t \in Spins \X (0 .. (MaxOcc - 1)) : t[2] \in DOMAIN RepIdx(x)[t[1]]}

NoRet == [none |-> TRUE]

\* a float that is not an array: one value, at no index of an atom
Scalar(v) == [i \in {-1} |-> v]

\* charge_atom: the float 0. when no weights are given
ChargeRet(x) == IF x.has_weights THEN ChargeAtom(x) ELSE Scalar(0)

\* {**prop, 'charge_atom': charge_atom}, for bonds after
\* prop['struct'] = prop_nuc_rep
ReturnValueStructOfFirstAtom(x, pr) ==
    IF x.part \in {"atoms", "eda"}
    THEN [key \in DOMAIN pr \cup {"charge_atom"} |->
            IF key = "charge_atom" THEN ChargeRet(x) ELSE pr[key]]
    ELSE [el |-> pr.el, struct |-> [a \in Atoms |-> PropNucRep(x)[0]],
          charge_atom |-> ChargeRet(x)]
ReturnValue(x, pr) ==
    IF x.part \in {"atoms", "eda"}
    THEN [key \in DOMAIN pr \cup {"charge_atom"} |->
            IF key = "charge_atom" THEN ChargeRet(x) ELSE pr[key]]
    ELSE [el |-> pr.el, struct |-> PropNucRep(x), charge_atom |-> ChargeRet(x)]

\* pool.map: the outcome of task k goes to place k of the result list r,
\* whatever the order of completion
ResultSlotByCompletion(r, k) == Cardinality({i \in DOMAIN r : r[i].st # "pending"})
ResultSlot(r, k) == k

\* the arrays prop_tot is handed by its caller
CallerArrays == {"mo_coeff", "mo_occ", "weights", "rep_idx"}

\* the array a name is bound to where prop_tot or a kernel stores into it:
\* res and prop are new mappings of new arrays (np.zeros), rdm1_atom is
\* np.zeros_like(rdm1_tot); the names of the arguments are the caller's
BoundToRdm1AtomIsView(name) ==
    IF name \in CallerArrays THEN name
    ELSE IF name = "rdm1_atom" THEN "mo_coeff" ELSE "new"
BoundTo(name) == IF name \in CallerArrays THEN name ELSE "new"

\* the names that are the target of an item assignment or of an augmented
\* assignment: in a kernel, or in the collection loop of prop_tot
StoredNames(kname) ==
    IF kname = "prop_atom" THEN {"res", "rdm1_atom"}
    ELSE IF kname \in {"prop_eda", "prop_bonds"} THEN {"res"}
    ELSE {"prop"}

\* the arrays of the caller that running the code stores into
WrittenBy(kname) == {BoundTo(n) : n \in StoredNames(kname)} \cap CallerArrays

\* ----------------------------------------------------------------- actions
\* main: the call decomp.res = prop_tot(...) is entered
MainCall(c) ==
    /\ mpc[c] = "start"
    /\ mpc' = [mpc EXCEPT ![c] = "prop_tot"]
    /\ pc' = [pc EXCEPT ![c] = "setup"]
    /\ UNCHANGED <<cfg, g_kernel, fn, res, nxt, busy, kc, prop, slotsrc, ret, exc,
                   decomp_res, order>>
    /\ UNCHANGED <<libvars, mapvars>>

\* prop_tot up to the kernel definitions: the dipole integrals need
\* kwargs['dipole_origin']; the three def statements bind the module
\* globals to the closures of this call
Setup(c) ==
    /\ pc[c] = "setup"
    /\ IF cfg[c].prop_type = "dipole" /\ ~cfg[c].has_origin
       THEN /\ pc' = [pc EXCEPT ![c] = "raised"]
            /\ exc' = [exc EXCEPT ![c] = "KeyError"]
            /\ UNCHANGED g_kernel
       ELSE /\ pc' = [pc EXCEPT ![c] = "dispatch"]
            /\ g_kernel' = [prop_atom |-> c, prop_eda |-> c, prop_bonds |-> c]
            /\ UNCHANGED exc
    /\ UNCHANGED <<cfg, mpc, fn, res, nxt, busy, kc, prop, slotsrc, ret, decomp_res, order>>
    /\ UNCHANGED <<libvars, mapvars>>

\* the branch on part: prop and the domain are built; the bonds branch
\* reads kwargs['rep_idx'] first
Dispatch(c) ==
    /\ pc[c] = "dispatch"
    /\ IF cfg[c].part \notin {"atoms", "eda"} /\ ~cfg[c].has_rep_idx
       THEN /\ pc' = [pc EXCEPT ![c] = "raised"]
            /\ exc' = [exc EXCEPT ![c] = "KeyError"]
            /\ UNCHANGED <<prop, res, nxt, slotsrc>>
       ELSE /\ pc' = [pc EXCEPT ![c] = "map"]
            /\ prop' = [prop EXCEPT ![c] = PropInit(cfg[c])]
            /\ res' = [res EXCEPT ![c] = [k \in 0 .. (NTasks(cfg[c]) - 1) |-> Pending]]
            /\ nxt' = [nxt EXCEPT ![c] = 0]
            /\ slotsrc' = [slotsrc EXCEPT ![c] = [t \in Slots(cfg[c]) |-> <<>>]]
            /\ UNCHANGED exc
    /\ UNCHANGED <<cfg, mpc, g_kernel, fn, busy, kc, ret, decomp_res, order>>
    /\ UNCHANGED <<libvars, mapvars>>

\* the kernel is looked up by its module-global name: by map() in the
\* sequential branch, by the forked workers of mp.Pool in the parallel
\* one; Pool(processes=0) raises ValueError
StartMap(c) ==
    /\ pc[c] = "map"
    /\ IF cfg[c].multiproc /\ NThreads(cfg[c]) = 0
       THEN /\ pc' = [pc EXCEPT ![c] = "raised"]
            /\ exc' = [exc EXCEPT ![c] = "ValueError"]
            /\ UNCHANGED <<fn, kernel, processes>>
       ELSE /\ pc' = [pc EXCEPT ![c] = IF cfg[c].multiproc THEN "pool" ELSE "seq"]
            /\ processes' = [processes EXCEPT ![c] =
                                IF cfg[c].multiproc THEN NThreads(cfg[c]) ELSE 0]
            /\ kernel' = [kernel EXCEPT ![c] = KernelName(cfg[c])]
            /\ fn' = [fn EXCEPT ![c] = g_kernel[KernelName(cfg[c])]]
            /\ UNCHANGED exc
    /\ UNCHANGED <<cfg, mpc, g_kernel, res, nxt, busy, kc, prop, slotsrc, ret,
                   decomp_res, order>>
    /\ UNCHANGED <<libvars, ranby, written>>

\* list(map(kernel, domain)): the next task in domain order; an exception
\* of the task leaves prop_tot
SeqTask(c) ==
    /\ pc[c] = "seq"
    /\ nxt[c] < NTasks(cfg[c])
    /\ ranby' = [ranby EXCEPT ![c] = Append(@, kernel[c])]
    /\ LET out == RunTask(kernel[c], cfg[fn[c]], Domain(cfg[c])[nxt[c]])
       IN  IF out.st = "ok"
           THEN /\ res' = [res EXCEPT ![c][nxt[c]] = out]
                /\ nxt' = [nxt EXCEPT ![c] = @ + 1]
                /\ order' = [order EXCEPT ![c] = Append(@, nxt[c])]
                /\ UNCHANGED <<pc, exc>>
           ELSE /\ pc' = [pc EXCEPT ![c] = "raised"]
                /\ exc' = [exc EXCEPT ![c] = out.st]
                /\ UNCHANGED <<res, nxt, order>>
    /\ written' = [written EXCEPT ![c] = @ \cup WrittenBy(kernel[c])]
    /\ UNCHANGED <<cfg, mpc, g_kernel, fn, busy, kc, prop, slotsrc, ret, decomp_res>>
    /\ UNCHANGED <<libvars, kernel, processes>>

\* pool.map: an idle worker takes the next task of the domain
WorkerTake(c, w) ==
    /\ pc[c] = "pool"
    /\ w <= processes[c]
    /\ busy[c][w] = -1
    /\ nxt[c] < NTasks(cfg[c])
    /\ busy' = [busy EXCEPT ![c][w] = nxt[c]]
    /\ nxt' = [nxt EXCEPT ![c] = @ + 1]
    /\ ranby' = [ranby EXCEPT ![c] = Append(@, kernel[c])]
    /\ UNCHANGED <<cfg, mpc, pc, g_kernel, fn, res, kc, prop, slotsrc, ret, exc,
                   decomp_res, order>>
    /\ UNCHANGED <<libvars, kernel, processes, written>>

\* pool.map: a worker finishes its task; the outcome (result or exception)
\* goes to the place of the task in the result list
WorkerFinish(c, w) ==
    /\ pc[c] = "pool"
    /\ busy[c][w] >= 0
    /\ res' = [res EXCEPT ![c][ResultSlot(res[c], busy[c][w])] =
                  RunTask(kernel[c], cfg[fn[c]], Domain(cfg[c])[busy[c][w]])]
    /\ busy' = [busy EXCEPT ![c][w] = -1]
    /\ order' = [order EXCEPT ![c] = Append(@, busy[c][w])]
    /\ UNCHANGED <<cfg, mpc, pc, g_kernel, fn, nxt, kc, prop, slotsrc, ret, exc,
                   decomp_res>>
    /\ UNCHANGED <<libvars, mapvars>>

\* pool.map re-raises the exception of a failed task; leaving the with
\* block terminates the pool
PoolRaise(c) ==
    /\ pc[c] = "pool"
    /\ \E k \in DOMAIN res[c] :
          /\ res[c][k].st \notin {"ok", "pending"}
          /\ exc' = [exc EXCEPT ![c] = res[c][k].st]
    /\ pc' = [pc EXCEPT ![c] = "raised"]
    /\ busy' = [busy EXCEPT ![c] = [w \in Workers |-> -1]]
    /\ UNCHANGED <<cfg, mpc, g_kernel, fn, res, nxt, kc, prop, slotsrc, ret,
                   decomp_res, order>>
    /\ UNCHANGED <<libvars, mapvars>>

\* the map has returned the list of all results
MapDoneWhenAllFinished(c) ==
    /\ pc[c] \in {"seq", "pool"}
    /\ \A k \in DOMAIN res[c] : res[c][k].st # "pending"
    /\ pc' = [pc EXCEPT ![c] = "collect"]
    /\ kc' = [kc EXCEPT ![c] = 0]
    /\ UNCHANGED <<cfg, mpc, g_kernel, fn, res, nxt, busy, prop, slotsrc, ret, exc,
                   decomp_res, order>>
    /\ UNCHANGED <<libvars, mapvars>>
MapDone(c) ==
    /\ pc[c] \in {"seq", "pool"}
    /\ \A k \in DOMAIN res[c] : res[c][k].st = "ok"
    /\ pc' = [pc EXCEPT ![c] = "collect"]
    /\ kc' = [kc EXCEPT ![c] = 0]
    /\ UNCHANGED <<cfg, mpc, g_kernel, fn, res, nxt, busy, prop, slotsrc, ret, exc,
                   decomp_res, order>>
    /\ UNCHANGED <<libvars, mapvars>>


\* for k, r in enumerate(res): for key, val in r.items(): the atom branch
\* stores at prop[key][k], the bonds branch at
\* prop[key][0 if k < len(rep_idx[0]) else 1][k % len(rep_idx[0])]
BondSpin(x, k) == IF k < Len0(RepIdx(x)[0]) THEN 0 ELSE 1
BondSlot(x, k) == k % Len0(RepIdx(x)[0])

Collect(c) ==
    /\ pc[c] = "collect"
    /\ kc[c] < NTasks(cfg[c])
    /\ LET x == cfg[c]
           k == kc[c]
           r == res[c][k].val
       IN  IF x.part \in {"atoms", "eda"}
           THEN IF DOMAIN r \subseteq DOMAIN prop[c]
                THEN /\ prop' = [prop EXCEPT ![c] =
                                   [key \in DOMAIN prop[c] |->
                                       IF key \in DOMAIN r
                                       THEN [prop[c][key] EXCEPT ![k] = r[key]]
                                       ELSE prop[c][key]]]
                     /\ slotsrc' = [slotsrc EXCEPT ![c][<<0, k>>] = Append(@, k)]
                     /\ kc' = [kc EXCEPT ![c] = @ + 1]
                     /\ UNCHANGED <<pc, exc>>
                ELSE /\ pc' = [pc EXCEPT ![c] = "raised"]
                     /\ exc' = [exc EXCEPT ![c] = "KeyError"]
                     /\ UNCHANGED <<prop, slotsrc, kc>>
           ELSE IF Len0(RepIdx(x)[0]) = 0
                THEN /\ pc' = [pc EXCEPT ![c] = "raised"]
                     /\ exc' = [exc EXCEPT ![c] = "ZeroDivisionError"]
                     /\ UNCHANGED <<prop, slotsrc, kc>>
                ELSE IF BondSlot(x, k) \notin DOMAIN prop[c].el[BondSpin(x, k)]
                THEN /\ pc' = [pc EXCEPT ![c] = "raised"]
                     /\ exc' = [exc EXCEPT ![c] = "IndexError"]
                     /\ UNCHANGED <<prop, slotsrc, kc>>
                ELSE /\ prop' = [prop EXCEPT
                                   ![c].el[BondSpin(x, k)][BondSlot(x, k)] = r.el]
                     /\ slotsrc' = [slotsrc EXCEPT
                                      ![c][<<BondSpin(x, k), BondSlot(x, k)>>] = Append(@, k)]
                     /\ kc' = [kc EXCEPT ![c] = @ + 1]
                     /\ UNCHANGED <<pc, exc>>
    /\ written' = [written EXCEPT ![c] = @ \cup WrittenBy("collect")]
    /\ UNCHANGED <<cfg, mpc, g_kernel, fn, res, nxt, busy, ret, decomp_res, order>>
    /\ UNCHANGED <<libvars, kernel, ranby, processes>>

\* return {**prop, 'charge_atom': charge_atom}
Return(c) ==
    /\ pc[c] = "collect"
    /\ kc[c] = NTasks(cfg[c])
    /\ ret' = [ret EXCEPT ![c] = ReturnValue(cfg[c], prop[c])]
    /\ pc' = [pc EXCEPT ![c] = "done"]
    /\ UNCHANGED <<cfg, mpc, g_kernel, fn, res, nxt, busy, kc, prop, slotsrc, exc,
                   decomp_res, order>>
    /\ UNCHANGED <<libvars, mapvars>>

\* main: decomp.res is assigned the mapping prop_tot returned
MainAssign(c) ==
    /\ mpc[c] = "prop_tot"
    /\ pc[c] = "done"
    /\ decomp_res' = [decomp_res EXCEPT ![c] = ret[c]]
    /\ mpc' = [mpc EXCEPT ![c] = "returned"]
    /\ UNCHANGED <<cfg, pc, g_kernel, fn, res, nxt, busy, kc, prop, slotsrc, ret, exc,
                   order>>
    /\ UNCHANGED <<libvars, mapvars>>

\* main: the exception of prop_tot passes through main
MainRaise(c) ==
    /\ mpc[c] = "prop_tot"
    /\ pc[c] = "raised"
    /\ mpc' = [mpc EXCEPT ![c] = "raised"]
    /\ UNCHANGED <<cfg, pc, g_kernel, fn, res, nxt, busy, kc, prop, slotsrc, ret, exc,
                   decomp_res, order>>
    /\ UNCHANGED <<libvars, mapvars>>

\* ---------------------------------------------------------------- pbctools
\* get_nuc_atomic_df and get_pp_atomic_df: the arguments are mydf (with
\* mydf._prefer_ccdf, mydf.kpts and mydf.cell.omega, of which the sign
\* matters) and kpts
PbcFns == {"get_nuc_atomic_df", "get_pp_atomic_df"}
Omegas == {-1, 0, 1}
KptsArgs == {"None", "vector", "mesh"}
DfKpts == {"gamma", "vector", "mesh"}

PbcIdle ==
    [fn |-> "none", prefer_ccdf |-> FALSE, omega |-> 0, kpts |-> "None",
     df_kpts |-> "gamma", pc |-> "idle", is_single_kpt |-> FALSE,
     built |-> <<>>, parts |-> {}, ret |-> NoRet, exc |-> "",
     seed |-> 0, vals |-> [loc1 |-> <<>>, loc2 |-> <<>>, nl |-> <<>>]]

\* kpts.reshape(-1, 3): the number of k-points of the call
MaxKpts == 2
NKpts(p) ==
    LET k == IF p.kpts = "None" THEN p.df_kpts ELSE p.kpts
    IN  IF k = "mesh" THEN MaxKpts ELSE 1

\* the arrays of the three builders, one entry per k-point (one element
\* of each entry is followed)
PpSeeds == 0 .. 1
PpLoc1(p) == [k \in 0 .. (NKpts(p) - 1) |-> p.seed + k + 1]
PpLoc2(p) == [k \in 0 .. (NKpts(p) - 1) |-> 2 * p.seed - k - 3]
PpNl(p) == [k \in 0 .. (NKpts(p) - 1) |-> 3 * k + p.seed * p.seed + 2]

\* the value returned: vne_at, or (vpp_total, vpp_loc1_at,
\* vpp_loc2_at+vpp_nl_at), of the first k-point only if is_single_kpt
PbcValueRestWithoutNl(p) ==
    LET v == p.vals
    IN  IF p.fn = "get_nuc_atomic_df"
        THEN IF p.is_single_kpt THEN <<v.loc1[0]>> ELSE <<v.loc1>>
        ELSE LET total == [k \in DOMAIN v.loc1 |-> v.loc1[k] + v.loc2[k] + v.nl[k]]
             IN  IF p.is_single_kpt
                 THEN <<total[0], v.loc1[0], v.loc2[0]>>
                 ELSE <<total, v.loc1, v.loc2>>
PbcValue(p) ==
    LET v == p.vals
    IN  IF p.fn = "get_nuc_atomic_df"
        THEN IF p.is_single_kpt THEN <<v.loc1[0]>> ELSE <<v.loc1>>
        ELSE LET total == [k \in DOMAIN v.loc1 |-> v.loc1[k] + v.loc2[k] + v.nl[k]]
             IN  IF p.is_single_kpt
                 THEN <<total[0], v.loc1[0], v.loc2[0] + v.nl[0]>>
                 ELSE <<total, v.loc1, [k \in DOMAIN v.loc1 |-> v.loc2[k] + v.nl[k]]>>

\* _check_kpts: kpts None reads mydf.kpts and guesses from its value
CheckKptsSingle(p) ==
    IF p.kpts = "None" THEN p.df_kpts \in {"vector", "gamma"}
    ELSE p.kpts = "vector"

\* if mydf._prefer_ccdf or cell.omega > 0
LongRangePreferCcdfOnly(p) == p.prefer_ccdf
LongRange(p) == p.prefer_ccdf \/ p.omega > 0

\* one of the two functions is called
PbcCall ==
    /\ pbc.pc = "idle"
    /\ \E f \in PbcFns, pf \in BOOLEAN, om \in Omegas, k \in KptsArgs, dk \in DfKpts,
          sd \in PpSeeds :
          pbc' = [PbcIdle EXCEPT !.fn = f, !.prefer_ccdf = pf, !.omega = om,
                                 !.kpts = k, !.df_kpts = dk, !.seed = sd,
                                 !.pc = "check_kpts"]
    /\ UNCHANGED <<cfg, mpc, pc, g_kernel, fn, res, nxt, busy, kc, prop, slotsrc,
                   ret, exc, decomp_res, order, decomp, mapvars, tbl, hcall,
                   mainrun>>

\* kpts, is_single_kpt = _check_kpts(mydf, kpts); cell = mydf.cell
PbcCheckKpts ==
    /\ pbc.pc = "check_kpts"
    /\ pbc' = [pbc EXCEPT !.is_single_kpt = CheckKptsSingle(pbc), !.pc = "test"]
    /\ UNCHANGED <<cfg, mpc, pc, g_kernel, fn, res, nxt, busy, kc, prop, slotsrc,
                   ret, exc, decomp_res, order, decomp, mapvars, tbl, hcall,
                   mainrun>>

\* the long-range test: raise, or _RSNucBuilder(cell, kpts).build()
PbcBuild ==
    /\ pbc.pc = "test"
    /\ IF LongRange(pbc)
       THEN pbc' = [pbc EXCEPT !.pc = "raised", !.exc = "NotImplementedError"]
       ELSE pbc' = [pbc EXCEPT !.pc = "part1",
                               !.built = Append(@, "_RSNucBuilder")]
    /\ UNCHANGED <<cfg, mpc, pc, g_kernel, fn, res, nxt, busy, kc, prop, slotsrc,
                   ret, exc, decomp_res, order, decomp, mapvars, tbl, hcall,
                   mainrun>>

\* get_pp_loc_part1, with_pseudo=False in get_nuc_atomic_df
PbcLocPart1 ==
    /\ pbc.pc = "part1"
    /\ pbc' = [pbc EXCEPT !.parts = @ \cup {"loc1"}, !.vals.loc1 = PpLoc1(pbc),
                          !.pc = IF pbc.fn = "get_nuc_atomic_df"
                                 THEN "return" ELSE "part2"]
    /\ UNCHANGED <<cfg, mpc, pc, g_kernel, fn, res, nxt, busy, kc, prop, slotsrc,
                   ret, exc, decomp_res, order, decomp, mapvars, tbl, hcall,
                   mainrun>>

\* pp2builder = _IntPPBuilder(cell, kpts); pp2builder.get_pp_loc_part2()
PbcLocPart2 ==
    /\ pbc.pc = "part2"
    /\ pbc' = [pbc EXCEPT !.built = Append(@, "_IntPPBuilder"),
                          !.parts = @ \cup {"loc2"}, !.vals.loc2 = PpLoc2(pbc),
                          !.pc = "nl"]
    /\ UNCHANGED <<cfg, mpc, pc, g_kernel, fn, res, nxt, busy, kc, prop, slotsrc,
                   ret, exc, decomp_res, order, decomp, mapvars, tbl, hcall,
                   mainrun>>

\* vpp_nl_at = get_pp_nl(cell, kpts)
PbcNl ==
    /\ pbc.pc = "nl"
    /\ pbc' = [pbc EXCEPT !.parts = @ \cup {"nl"}, !.vals.nl = PpNl(pbc),
                          !.pc = "return"]
    /\ UNCHANGED <<cfg, mpc, pc, g_kernel, fn, res, nxt, busy, kc, prop, slotsrc,
                   ret, exc, decomp_res, order, decomp, mapvars, tbl, hcall,
                   mainrun>>

\* the k-point axis is dropped for a single k-point; the value is returned
PbcReturn ==
    /\ pbc.pc = "return"
    /\ pbc' = [pbc EXCEPT !.ret = [parts |-> pbc.parts,
                                   kpt_axis |-> ~pbc.is_single_kpt,
                                   value |-> PbcValue(pbc)],
                          !.pc = "done"]
    /\ UNCHANGED <<cfg, mpc, pc, g_kernel, fn, res, nxt, busy, kc, prop, slotsrc,
                   ret, exc, decomp_res, order, decomp, mapvars, tbl, hcall,
                   mainrun>>

\* ---------------------------------------------------------- specifications
\* weight vectors: every atom a multiple of 1/WUnit between 0 and 1
WVecs == [Atoms -> 0 .. WUnit]

\* the nuclei at distinct places 0..MaxDist of the x axis
Places == {f \in [Atoms -> 0 .. MaxDist] : \A a, b \in Atoms : a # b => f[a] # f[b]}

\* a keyword argument that is not passed
NoOrigin == -1

BaseCfg ==
    [prop_type |-> "energy", part |-> "atoms", multiproc |-> FALSE,
     ref |-> "unrestricted", xc |-> "", mm |-> FALSE, solv |-> FALSE,
     nocc |-> [s \in Spins |-> 1],
     has_weights |-> TRUE, wbase |-> [a \in Atoms |-> IF a = 0 THEN WUnit ELSE 0],
     wrev |-> FALSE, has_rep_idx |-> TRUE, grouped |-> FALSE, has_origin |-> TRUE,
     charges |-> [a \in Atoms |-> 1], pos |-> [a \in Atoms |-> a], nthreads |-> 1,
     dipole_origin |-> 0, gauge_origin |-> NoOrigin]

\* no configuration: prop_tot is called with the arguments of cfg
NoDecomp == [none |-> TRUE]

\* the origins a configuration can name
Origins == {0, 1}

\* the arguments main builds for prop_tot from the configuration d: the
\* fifth positional argument (the parameter ref) is rdm1_eff, the origin is
\* passed under the keyword gauge_origin; weights for the atoms and eda
\* strategies, rep_idx and centres for bonds
MainArgs(d) ==
    [BaseCfg EXCEPT !.prop_type = d.prop, !.part = d.part,
                    !.multiproc = d.multiproc, !.ref = d.rdm1_eff,
                    !.has_weights = (d.part \in {"atoms", "eda"}),
                    !.has_rep_idx = (d.part = "bonds"),
                    !.has_origin = FALSE, !.gauge_origin = d.gauge_origin]

\* main has called nothing and has not returned
NoRun == [steps |-> <<>>, ret |-> [none |-> TRUE]]

\* all variables but those of main
notmain == <<cfg, pc, g_kernel, fn, res, nxt, busy, kc, prop, slotsrc, ret, exc,
             decomp_res, order, pbc, decomp, tbl, hcall, mapvars>>

\* main: the arguments are built and decomp.res = prop_tot(...) is entered
MainPropTot(c) ==
    /\ mpc[c] = "main"
    /\ cfg' = [cfg EXCEPT ![c] = MainArgs(decomp[c])]
    /\ mpc' = [mpc EXCEPT ![c] = "prop_tot"]
    /\ pc' = [pc EXCEPT ![c] = "setup"]
    /\ mainrun' = [mainrun EXCEPT ![c].steps = Append(@, "prop_tot")]
    /\ UNCHANGED <<g_kernel, fn, res, nxt, busy, kc, prop, slotsrc, ret, exc,
                   decomp_res, order, pbc, decomp, tbl, hcall, mapvars>>

\* main: where it goes on after the orbitals are formatted, after the
\* localization, and after decomp.res is assigned
AfterLoc(d) == IF d.part \in {"atoms", "eda", "bonds"} THEN "assign" ELSE "main"
AfterOrbitalsLocAlways(d) == "loc"
AfterOrbitals(d) == IF d.loc # "" THEN "loc" ELSE AfterLoc(d)
AfterProp(d) == IF d.write # "" THEN "write" ELSE "return"

\* main: sanity_check(mol, decomp)
MainSanity(c) ==
    /\ mpc[c] = "enter"
    /\ mpc' = [mpc EXCEPT ![c] = "orbitals"]
    /\ mainrun' = [mainrun EXCEPT ![c].steps = Append(@, "sanity_check")]
    /\ UNCHANGED notmain

\* main: mf_info(mf, ...) if rdm1_orb is None, else make_no(mol, ...)
MainOrbitals(c) ==
    /\ mpc[c] = "orbitals"
    /\ mpc' = [mpc EXCEPT ![c] = AfterOrbitals(decomp[c])]
    /\ mainrun' = [mainrun EXCEPT ![c].steps =
                      Append(@, IF decomp[c].rdm1_orb = "None" THEN "mf_info" ELSE "make_no")]
    /\ UNCHANGED notmain

\* main: mo_coeff = loc_orbs(mol, mo_coeff, mo_occ, decomp.loc, loc_lst)
MainLoc(c) ==
    /\ mpc[c] = "loc"
    /\ mpc' = [mpc EXCEPT ![c] = AfterLoc(decomp[c])]
    /\ mainrun' = [mainrun EXCEPT ![c].steps = Append(@, "loc_orbs")]
    /\ UNCHANGED notmain

\* main: assign_rdm1s(...): the weights, or rep_idx and the centres
MainAssignRdm1s(c) ==
    /\ mpc[c] = "assign"
    /\ mpc' = [mpc EXCEPT ![c] = "main"]
    /\ mainrun' = [mainrun EXCEPT ![c].steps = Append(@, "assign_rdm1s")]
    /\ UNCHANGED notmain

\* main: after decomp.res = prop_tot(...), the test of decomp.write
MainAfterProp(c) ==
    /\ mpc[c] = "returned"
    /\ mpc' = [mpc EXCEPT ![c] = AfterProp(decomp[c])]
    /\ UNCHANGED <<notmain, mainrun>>

\* main: write_rdm1(mol, decomp.part, mo_coeff, mo_occ, decomp.write, ...)
MainWrite(c) ==
    /\ mpc[c] = "write"
    /\ mpc' = [mpc EXCEPT ![c] = "return"]
    /\ mainrun' = [mainrun EXCEPT ![c].steps = Append(@, "write_rdm1")]
    /\ UNCHANGED notmain

\* main: return decomp.res
MainReturn(c) ==
    /\ mpc[c] = "return"
    /\ mpc' = [mpc EXCEPT ![c] = "exit"]
    /\ mainrun' = [mainrun EXCEPT ![c].ret = decomp_res[c]]
    /\ UNCHANGED notmain

\* ----------------------------------------------------------------- results
\* table_bonds(mol, decomp, cent): cent[i] holds for every orbital j of
\* spin i the two atoms it is centred on; decomp.prop_el[i] has one entry
\* per orbital
BondPairs == {t \in Atoms \X Atoms : t[2] \in {t[1], t[1] + 1}}
CentLists == UNION {[1 .. n -> BondPairs] : n \in 0 .. MaxOcc}

\* mol.atom_symbol
AtomSymbol(a) == IF a = 0 THEN "O" ELSE "H"

\* lib.param.BOHR in units of 1e-8
Bohr8 == 52917721

\* dist = gto.mole.inter_distance(mol) * lib.param.BOHR, in units of 1e-8
TableDist == [a \in Atoms |-> [b \in Atoms |-> InterDistance(BaseCfg)[a][b] * Bohr8]]

\* '{:>.6f}'.format(v): v rounded to six decimals, in units of 1e-6
Format6(v) == (v + 50) \div 100

\* '{:s}{:d}'.format(symbol, index), and the pair joined by '-'
AtomLabel(sym, idx) == <<[sym |-> sym, idx |-> idx]>>
PairLabel(s1, i1, s2, i2) == AtomLabel(s1, i1) \o AtomLabel(s2, i2)

TblIdle ==
    [prop |-> "", cent |-> [s \in Spins |-> <<>>], pc |-> "idle", i |-> 0, j |-> 0,
     rows |-> <<>>, exc |-> ""]

\* the atom(s) and bond length entries of the row of orbital j of spin i
\* (orbital j is place j + 1 of the list); the energy table takes the
\* symbol of a single atom from cent[0]
TableAtoms(t, i, j) ==
    LET c == t.cent[i][j + 1]
        core == c[1] = c[2]
    IN  IF core
        THEN IF t.prop = "energy"
             THEN AtomLabel(AtomSymbol(t.cent[0][j + 1][1]), c[1])
             ELSE AtomLabel(AtomSymbol(c[1]), c[1])
        ELSE PairLabel(AtomSymbol(c[1]), c[1], AtomSymbol(c[2]), c[2])

TableLength(t, i, j) ==
    LET c == t.cent[i][j + 1]
    IN  IF c[1] = c[2] THEN <<>> ELSE <<Format6(TableDist[c[1]][c[2]])>>

\* cent[0][j, 0] of an orbital j that spin 0 does not have
TableFault(t, i, j) ==
    LET c == t.cent[i][j + 1]
    IN  IF t.prop = "energy" /\ c[1] = c[2] /\ j + 1 > Len(t.cent[0])
        THEN "IndexError" ELSE ""

\* table_bonds is called
TableBonds ==
    /\ tbl.pc = "idle"
    /\ \E pt \in {"energy", "dipole"}, ce \in [Spins -> CentLists] :
          tbl' = [TblIdle EXCEPT !.prop = pt, !.cent = ce, !.pc = "rows"]
    /\ UNCHANGED <<cfg, mpc, pc, g_kernel, fn, res, nxt, busy, kc, prop, slotsrc,
                   ret, exc, decomp_res, order, pbc, decomp, mapvars, hcall,
                   mainrun>>

\* for j in range(decomp.prop_el[i].size): one row
TableRow ==
    /\ tbl.pc = "rows"
    /\ tbl.i < 2
    /\ tbl.j < Len(tbl.cent[tbl.i])
    /\ IF TableFault(tbl, tbl.i, tbl.j) # ""
       THEN tbl' = [tbl EXCEPT !.pc = "raised", !.exc = TableFault(tbl, tbl.i, tbl.j)]
       ELSE tbl' = [tbl EXCEPT !.rows = Append(@, [spin |-> tbl.i, mo |-> tbl.j,
                                                   atoms |-> TableAtoms(tbl, tbl.i, tbl.j),
                                                   length |-> TableLength(tbl, tbl.i, tbl.j)]),
                               !.j = @ + 1]
    /\ UNCHANGED <<cfg, mpc, pc, g_kernel, fn, res, nxt, busy, kc, prop, slotsrc,
                   ret, exc, decomp_res, order, pbc, decomp, mapvars, hcall,
                   mainrun>>

\* for i in range(2): the rows of the spin are done
TableNextSpin ==
    /\ tbl.pc = "rows"
    /\ tbl.i < 2
    /\ tbl.j = Len(tbl.cent[tbl.i])
    /\ tbl' = [tbl EXCEPT !.i = @ + 1, !.j = 0]
    /\ UNCHANGED <<cfg, mpc, pc, g_kernel, fn, res, nxt, busy, kc, prop, slotsrc,
                   ret, exc, decomp_res, order, pbc, decomp, mapvars, hcall,
                   mainrun>>

\* return string.format(*form)
TableReturn ==
    /\ tbl.pc = "rows"
    /\ tbl.i = 2
    /\ tbl' = [tbl EXCEPT !.pc = "done"]
    /\ UNCHANGED <<cfg, mpc, pc, g_kernel, fn, res, nxt, busy, kc, prop, slotsrc,
                   ret, exc, decomp_res, order, pbc, decomp, mapvars, hcall,
                   mainrun>>

\* ------------------------------------------------- the helper functions
\* no helper function is being called
HelperIdle == [fn |-> "", pc |-> "idle"]

\* all variables but hcall
progvars == <<cfg, mpc, pc, g_kernel, fn, res, nxt, busy, kc, prop, slotsrc, ret,
              exc, decomp_res, order, pbc, decomp, tbl, mapvars, mainrun>>

\* pbctools: the cells handed to the periodic helpers
CellDimensions == 0 .. 3
LowDimFtTypes == {"None", "inf_vacuum", "analytic_2d_1"}
MaxCellAtoms == 2
DimFns == {"ewald_e_nuc", "build", "get_pp_loc_part1"}

\* cell.dimension == 2 and cell.low_dim_ft_type != 'inf_vacuum'
LowDimUnsupportedNever(h) == FALSE
LowDimUnsupported(h) == h.dimension = 2 /\ h.low_dim_ft_type # "inf_vacuum"

\* one of the three helpers is called; rs_cell tells whether the builder
\* has been built before (self.rs_cell is not None)
DimCall ==
    /\ hcall.pc = "idle"
    /\ \E f \in DimFns, d \in CellDimensions, t \in LowDimFtTypes,
          n \in 0 .. MaxCellAtoms, b \in BOOLEAN :
          hcall' = [fn |-> f, pc |-> "start", dimension |-> d, low_dim_ft_type |-> t,
                    natm |-> n, rs_cell |-> IF f = "get_pp_loc_part1" THEN b ELSE FALSE,
                    inner |-> FALSE, ret |-> "", exc |-> ""]
    /\ UNCHANGED progvars

\* ewald_e_nuc: if cell.natm == 0: return 0; then the sums in real space
EwaldStart ==
    /\ hcall.fn = "ewald_e_nuc" /\ hcall.pc = "start"
    /\ hcall' = IF hcall.natm = 0
                THEN [hcall EXCEPT !.pc = "returned", !.ret = "0"]
                ELSE [hcall EXCEPT !.pc = "gspace"]
    /\ UNCHANGED progvars

\* ewald_e_nuc: the sum in reciprocal space, or NotImplementedError
EwaldGSpace ==
    /\ hcall.fn = "ewald_e_nuc" /\ hcall.pc = "gspace"
    /\ hcall' = IF ~LowDimUnsupported(hcall)
                THEN [hcall EXCEPT !.pc = "returned", !.ret = "per_atom"]
                ELSE [hcall EXCEPT !.pc = "raised", !.exc = "NotImplementedError"]
    /\ UNCHANGED progvars

\* get_pp_loc_part1: if self.rs_cell is None: self.build()
Part1Start ==
    /\ hcall.fn = "get_pp_loc_part1" /\ hcall.pc = "start"
    /\ hcall' = IF hcall.rs_cell THEN [hcall EXCEPT !.pc = "vloc"]
                ELSE [hcall EXCEPT !.pc = "mesh", !.inner = TRUE]
    /\ UNCHANGED progvars

\* _RSNucBuilder.build, called directly or by get_pp_loc_part1: omega, mesh
\* and cutoff, with NotImplementedError in the branch of dimension # 0
BuildMesh ==
    /\ hcall.fn \in {"build", "get_pp_loc_part1"}
    /\ hcall.pc = (IF hcall.fn = "build" THEN "start" ELSE "mesh")
    /\ hcall' = IF hcall.dimension # 0 /\ LowDimUnsupported(hcall)
                THEN [hcall EXCEPT !.pc = "raised", !.exc = "NotImplementedError"]
                ELSE [hcall EXCEPT !.pc = "cells"]
    /\ UNCHANGED progvars

\* _RSNucBuilder.build: rs_cell, supmol and supmol_ft; return self
BuildCells ==
    /\ hcall.pc = "cells"
    /\ hcall' = IF hcall.inner
                THEN [hcall EXCEPT !.pc = "vloc", !.rs_cell = TRUE, !.inner = FALSE]
                ELSE [hcall EXCEPT !.pc = "returned", !.rs_cell = TRUE, !.ret = "self"]
    /\ UNCHANGED progvars

\* get_pp_loc_part1: vj = self._int_nuc_vloc(fakenuc), then the test of
\* dimension 0
Part1Vloc ==
    /\ hcall.fn = "get_pp_loc_part1" /\ hcall.pc = "vloc"
    /\ hcall' = IF hcall.dimension = 0
                THEN [hcall EXCEPT !.pc = "raised", !.exc = "NotImplementedError"]
                ELSE [hcall EXCEPT !.pc = "long_range"]
    /\ UNCHANGED progvars

\* get_pp_loc_part1: the dd block, the Fourier transform of the basis and
\* the long-range Coulomb kernel, or NotImplementedError
Part1LongRange ==
    /\ hcall.fn = "get_pp_loc_part1" /\ hcall.pc = "long_range"
    /\ hcall' = IF LowDimUnsupported(hcall)
                THEN [hcall EXCEPT !.pc = "raised", !.exc = "NotImplementedError"]
                ELSE [hcall EXCEPT !.pc = "returned", !.ret = "vj_at"]
    /\ UNCHANGED progvars

\* properties._trace: the matrices it is handed, with entries -1, 0, 1
TestMat(a, b) == Tab2([p \in AOs |-> [q \in AOs |-> ((a * p + b * q + p * q) % 3) - 1]])
TestMats == {TestMat(a, b) : a, b \in 0 .. 2}
TestStacks == {[d \in Xyz |-> TestMat((a + d) % 3, b)] : a, b \in 0 .. 2}

\* the argument scaling: not given, or twice its value (.5, 1., 2.)
ScalingArgs == {[given |-> FALSE, twice |-> 0]} \cup {[given |-> TRUE, twice |-> t] : t \in {1, 2, 4}}

\* scaling: float = 1., as twice its value
DefaultScaling2 == 2
Scaling2Of(arg) == IF arg.given THEN arg.twice ELSE DefaultScaling2

\* _trace is called with a matrix or a stack of matrices
TraceCall ==
    /\ hcall.pc = "idle"
    /\ \E nd \in {2, 3}, r \in TestMats, sc \in ScalingArgs :
          \E o \in (IF nd = 2 THEN TestMats ELSE TestStacks) :
             hcall' = [fn |-> "_trace", pc |-> "called", op |-> o, ndim |-> nd,
                       rdm1 |-> r, scaling |-> sc, ret |-> NoVal]
    /\ UNCHANGED progvars

\* _trace returns
TraceReturn ==
    /\ hcall.fn = "_trace" /\ hcall.pc = "called"
    /\ hcall' = [hcall EXCEPT !.pc = "returned",
                    !.ret = [val |-> Trace(hcall.op, hcall.ndim, hcall.rdm1,
                                           Scaling2Of(hcall.scaling))]]
    /\ UNCHANGED progvars

\* results._ref(mol, decomp): the inputs it reads
RefKinds == {"restricted", "unrestricted", ""}
MaxSpin == 3
XcNames == {"", "pbe", "b3lyp", "lda,vwn"}

\* the branch _ref takes: on decomp.ref, then on mol.spin
RefBranchSpinIgnored(ref, spin) == IF ref = "restricted" THEN "closed" ELSE "unrestricted"
RefBranch(ref, spin) ==
    IF ref = "restricted"
    THEN IF spin = 0 THEN "closed" ELSE "open"
    ELSE "unrestricted"

\* the label of the branch: '..HF' if decomp.xc == '' else '..KS'
RefLabel(branch, xc) ==
    IF branch = "closed" THEN (IF xc = "" THEN "RHF" ELSE "RKS")
    ELSE IF branch = "open" THEN (IF xc = "" THEN "ROHF" ELSE "ROKS")
    ELSE (IF xc = "" THEN "UHF" ELSE "UKS")

\* _ref is called
RefCall ==
    /\ hcall.pc = "idle"
    /\ \E r \in RefKinds, sp \in 0 .. MaxSpin, x \in XcNames :
          hcall' = [fn |-> "_ref", pc |-> "called", ref |-> r, spin |-> sp, xc |-> x,
                    branch |-> "", label |-> "", ret |-> ""]
    /\ UNCHANGED progvars

\* _ref: if decomp.ref == 'restricted': if mol.spin == 0: ... else ...
RefTest ==
    /\ hcall.fn = "_ref" /\ hcall.pc = "called"
    /\ hcall' = [hcall EXCEPT !.pc = "branch", !.branch = RefBranch(hcall.ref, hcall.spin)]
    /\ UNCHANGED progvars

\* _ref: ref = ... if decomp.xc == '' else ...
RefAssign ==
    /\ hcall.fn = "_ref" /\ hcall.pc = "branch"
    /\ hcall' = [hcall EXCEPT !.pc = "assigned", !.label = RefLabel(hcall.branch, hcall.xc)]
    /\ UNCHANGED progvars

\* _ref: return ref
RefReturn ==
    /\ hcall.fn = "_ref" /\ hcall.pc = "assigned"
    /\ hcall' = [hcall EXCEPT !.pc = "returned", !.ret = hcall.label]
    /\ UNCHANGED progvars

\* the state before any call
InitState(cfgs, confs) ==
    /\ cfg \in cfgs
    /\ decomp \in confs
    /\ kernel = [c \in Calls |-> ""]
    /\ ranby = [c \in Calls |-> <<>>]
    /\ processes = [c \in Calls |-> 0]
    /\ written = [c \in Calls |-> {}]
    /\ pc = [c \in Calls |-> "idle"]
    /\ g_kernel = [prop_atom |-> 0, prop_eda |-> 0, prop_bonds |-> 0]
    /\ fn = [c \in Calls |-> 0]
    /\ res = [c \in Calls |-> <<>>]
    /\ nxt = [c \in Calls |-> 0]
    /\ busy = [c \in Calls |-> [w \in Workers |-> -1]]
    /\ kc = [c \in Calls |-> 0]
    /\ prop = [c \in Calls |-> NoRet]
    /\ slotsrc = [c \in Calls |-> <<>>]
    /\ ret = [c \in Calls |-> NoRet]
    /\ exc = [c \in Calls |-> ""]
    /\ decomp_res = [c \in Calls |-> NoRet]
    /\ order = [c \in Calls |-> <<>>]
    /\ pbc = PbcIdle
    /\ tbl = TblIdle
    /\ hcall = HelperIdle
    /\ mainrun = [c \in Calls |-> NoRun]

InitWith(cfgs) == InitState(cfgs, {[c \in Calls |-> NoDecomp]})

\* the steps of one call of main and prop_tot
CallStep(c) ==
    \/ MainCall(c)
    \/ Setup(c)
    \/ Dispatch(c)
    \/ StartMap(c)
    \/ SeqTask(c)
    \/ \E w \in Workers : WorkerTake(c, w)
    \/ \E w \in Workers : WorkerFinish(c, w)
    \/ PoolRaise(c)
    \/ MapDone(c)
    \/ Collect(c)
    \/ Return(c)
    \/ MainAssign(c)
    \/ MainRaise(c)

\* one call, sequential or parallel, of every property type and strategy;
\* an argument is varied where the call reads it: the origin in dipole
\* mode, rep_idx in the bond strategy, the thread count with multiproc
CallCfgs ==
    {x \in {[BaseCfg EXCEPT !.prop_type = pt, !.part = pa, !.multiproc = mp,
                            !.nocc = no, !.has_weights = hw, !.has_rep_idx = hr,
                            !.has_origin = ho, !.grouped = gr, !.nthreads = nt] :
               pt \in {"energy", "dipole"}, pa \in {"atoms", "eda", "bonds"},
               mp \in BOOLEAN, no \in [Spins -> 0 .. MaxOcc], hw \in BOOLEAN,
               hr \in BOOLEAN, ho \in BOOLEAN, gr \in BOOLEAN, nt \in 1 .. MaxThreads} :
        /\ x.prop_type = "energy" => x.has_origin
        /\ x.part # "bonds" => (x.has_rep_idx /\ ~x.grouped)
        /\ ~x.multiproc => x.nthreads = 1}

Init ==
    /\ InitWith({[c \in Calls |-> IF c = 1 THEN x ELSE BaseCfg] : x \in CallCfgs})
    /\ mpc = [c \in Calls |-> IF c = 1 THEN "start" ELSE "off"]

Next == CallStep(1)

Spec == Init /\ [][Next]_vars

\* the steps of one sequential call
SeqStep(c) ==
    \/ MainCall(c)
    \/ Setup(c)
    \/ Dispatch(c)
    \/ StartMap(c)
    \/ SeqTask(c)
    \/ MapDone(c)
    \/ Collect(c)
    \/ Return(c)
    \/ MainAssign(c)
    \/ MainRaise(c)

\* the reference kind and the functional: Hartree-Fock, or Kohn-Sham
Methods ==
    {[ref |-> "unrestricted", xc |-> ""], [ref |-> "restricted", xc |-> "GGA"],
     [ref |-> "unrestricted", xc |-> "GGA"], [ref |-> "unrestricted", xc |-> "LDA"]}

\* the embedding potential and the continuum solvent
Surroundings ==
    {[mm |-> FALSE, solv |-> FALSE], [mm |-> TRUE, solv |-> FALSE],
     [mm |-> FALSE, solv |-> TRUE]}

\* base weight vectors: the complete ones with a share on the first atom
\* (the other atoms get theirs by rotation and reversal), and one that is
\* not complete
WBases ==
    {v \in WVecs : Sum(v) = WUnit /\ v[0] > 0}
    \cup {[a \in Atoms |-> IF a = 0 THEN 1 ELSE 0]}

\* sequential energy decompositions: the weights matter to the atom
\* strategy, the grouping of the orbitals to the bond strategy
EnergyCfgs ==
    {[BaseCfg EXCEPT !.part = "atoms", !.nocc = no, !.ref = me.ref, !.xc = me.xc,
                     !.mm = su.mm, !.solv = su.solv, !.wbase = wb, !.wrev = wr] :
        no \in [Spins -> 0 .. MaxOcc], me \in Methods, su \in Surroundings,
        wb \in WBases, wr \in BOOLEAN}
    \cup
    {[BaseCfg EXCEPT !.part = pa, !.nocc = no, !.ref = me.ref, !.xc = me.xc,
                     !.mm = su.mm, !.solv = su.solv, !.grouped = gr] :
        pa \in {"eda", "bonds"}, no \in [Spins -> 0 .. MaxOcc], me \in Methods,
        su \in Surroundings, gr \in BOOLEAN}

InitEnergy ==
    /\ InitWith({[c \in Calls |-> IF c = 1 THEN x ELSE BaseCfg] : x \in EnergyCfgs})
    /\ mpc = [c \in Calls |-> IF c = 1 THEN "start" ELSE "off"]

NextEnergy == SeqStep(1)

SpecEnergy == InitEnergy /\ [][NextEnergy]_vars

\* ------------------------------------------------------------------ claims
\* every occupied orbital is assigned completely: its weights sum to 1
WeightsComplete(x) ==
    \A s \in Spins : \A m \in DOMAIN Weights(x)[s] : Sum(Weights(x)[s][m]) = WUnit

\* the energy terms evaluated with the total density of the call
TotalCoul(e) == Trace(VjSum, 2, e.rdm1_sum, 1)
TotalExch(e) == 0 - (Trace(VkInt(0), 2, e.rdm1_tot[0], 1) + Trace(VkInt(1), 2, e.rdm1_tot[1], 1))
TotalKin(e) == Trace(KinInt, 2, e.rdm1_sum, 2)
TotalNucAtt(e) == Trace(e.nuc, 2, e.rdm1_sum, 2)
TotalSolvent(x, e) ==
    (IF x.mm THEN Trace(MmPotInt, 2, e.rdm1_sum, 2) ELSE 0)
    + (IF x.solv THEN Sum(ESolventInt) ELSE 0)
TotalXc(x, e) ==
    IF x.xc = "" THEN 0
    ELSE EXc(e.eps_xc, GridWeightsInt,
             MakeRhoInterm2(MakeRhoInterm1(AoVal(x.xc), e.rdm1_sum, x.xc),
                            AoVal(x.xc), x.xc),
             RhoNdim(x.xc))

\* the sums over the atoms of the five terms of the returned mapping r
\* equal the terms of the total density
TermsSumToTotal(x, e, r) ==
    /\ Sum(r.kin) = TotalKin(e)
    /\ Sum(r.coul) = TotalCoul(e)
    /\ Sum(r.exch) = TotalExch(e)
    /\ Sum(r.nuc_att) = TotalNucAtt(e)
    /\ Sum(r.xc) = TotalXc(x, e)

\* the total electronic energy: the six terms of the total density
TotalEl(x, e) ==
    TotalKin(e) + TotalCoul(e) + TotalExch(e) + TotalNucAtt(e) + TotalXc(x, e)
    + TotalSolvent(x, e)

C2_EdaEnergyConserved ==
    (pc[1] = "done" /\ cfg[1].part = "eda" /\ cfg[1].prop_type = "energy")
    => LET e == Env(cfg[1])
       IN  /\ TermsSumToTotal(cfg[1], e, ret[1])
           /\ Sum(ret[1].solvent) = TotalSolvent(cfg[1], e)

\* ------------------------------------------------------------ dipole claims
\* the total dipole moment: minus the trace of the dipole integrals with
\* the total density, plus the sum of charge times position of the nuclei
TotalDipole(x, e) ==
    LET t == Trace(AoDipInt, 3, e.rdm1_sum, 2)
    IN  [d \in Xyz |-> (0 - t[d]) + Sum([a \in Atoms |-> DipNuc(x)[a][d]])]

\* C4: in dipole mode with the atoms or eda strategy, prop_tot returns
\* per-atom 'el' and 'struct' vectors whose sums over the atoms add up, per
\* Cartesian component, to the total dipole moment.
C4_DipoleConserved ==
    (cfg[1].prop_type = "dipole" /\ cfg[1].part \in {"atoms", "eda"}
     /\ cfg[1].has_origin /\ cfg[1].has_weights /\ pc[1] \in {"done", "raised"})
    => /\ pc[1] = "done"
       /\ \A d \in Xyz :
             Sum([a \in Atoms |-> ret[1].el[a][d]])
             + Sum([a \in Atoms |-> ret[1].struct[a][d]])
             = TotalDipole(cfg[1], Env(cfg[1]))[d]

\* ------------------------------------------------------------ charge claims
\* the molecule is neutral: as many electrons as nuclear charge
Neutral(x) == Sum(x.charges) = x.nocc[0] + x.nocc[1]

\* C5: for a neutral molecule whose weights assign every occupied
\* spin-orbital completely, the charge_atom array returned by prop_tot sums
\* to 0 over the atoms, for closed-shell and open-shell orbital counts.
C5_ChargesSumToZero ==
    (pc[1] = "done" /\ cfg[1].has_weights /\ WeightsComplete(cfg[1])
     /\ Neutral(cfg[1]))
    => Sum(ret[1].charge_atom) = 0

\* C5 witness: an open-shell neutral call has returned atomic charges that
\* are not all zero
C5_Witness ==
    /\ pc[1] = "done" /\ WeightsComplete(cfg[1]) /\ Neutral(cfg[1])
    /\ cfg[1].nocc[0] # cfg[1].nocc[1]
    /\ Sum(ret[1].charge_atom) = 0
    /\ \E a \in Atoms : ret[1].charge_atom[a] # 0

\* ------------------------------------------------------- parallel map claims
\* the per-atom keys of a returned mapping
AtomKeys(r) == DOMAIN r \ {"charge_atom"}

\* C6: for fixed inputs prop_tot returns the same mapping with multiproc
\* true and false: slot k of every per-atom array holds the result of the
\* task for atom k, whatever the number of workers and the order in which
\* they finish.
C6_SlotHoldsItsTask ==
    (pc[1] = "done" /\ cfg[1].part \in {"atoms", "eda"})
    => \A k \in Atoms :
          LET r == RunTask(KernelName(cfg[1]), cfg[1], [atom |-> k]).val
          IN  \A key \in AtomKeys(ret[1]) : ret[1][key][k] = r[key]

\* C6 witness: a parallel call whose workers finished the tasks in
\* descending order has returned different values for two atoms
C6_Witness ==
    /\ pc[1] = "done" /\ cfg[1].part = "atoms" /\ cfg[1].multiproc
    /\ NThreads(cfg[1]) > 1
    /\ order[1][1] > order[1][2]
    /\ ret[1].el[0] # ret[1].el[1]

\* ---------------------------------------------------------- bond slot claims
\* the place in the domain of the task for entry m of rep_idx[s]
TaskOfSlot(x, s, m) == IF s = 0 THEN m ELSE Len0(RepIdx(x)[0]) + m

\* C7: in bonds mode the result of the task for spin s and the m-th entry
\* of rep_idx[s] is stored at prop['el'][s][m] and nowhere else, for any
\* lengths of the alpha and beta lists; no slot is written twice and no
\* slot is left unwritten.
C7_BondSlotsExact ==
    (cfg[1].part = "bonds" /\ cfg[1].has_rep_idx /\ cfg[1].has_origin
     /\ ~(cfg[1].multiproc /\ NTasks(cfg[1]) = 0)
     /\ pc[1] \in {"done", "raised"})
    => /\ pc[1] = "done"
       /\ \A t \in Slots(cfg[1]) :
             slotsrc[1][t] = <<TaskOfSlot(cfg[1], t[1], t[2])>>

\* ------------------------------------------------------------- error claims
\* the argument the chosen strategy needs is missing
MissingArg(x) ==
    \/ x.part \in {"atoms", "eda"} /\ ~x.has_weights
    \/ x.part = "bonds" /\ ~x.has_rep_idx

\* C9: prop_tot called with part 'atoms' or 'eda' and no weights, or with
\* part 'bonds' and no rep_idx, aborts with an error and returns no
\* result mapping.
C9_MissingArgumentAborts ==
    MissingArg(cfg[1]) => (pc[1] # "done" /\ ret[1] = NoRet)

\* some task of the call raises
TaskRaises(x) ==
    /\ x.prop_type = "dipole" => x.has_origin
    /\ x.part = "bonds" => x.has_rep_idx
    /\ NTasks(x) > 0
    /\ TaskFault(KernelName(x), x) # ""

\* C10: if any per-unit task raises, in sequential or in parallel
\* execution, prop_tot raises and returns no result mapping, and main does
\* not assign decomp.res: no partially filled result is ever returned.
C10_NoPartialResult ==
    TaskRaises(cfg[1]) =>
        /\ pc[1] \notin {"collect", "done"}
        /\ ret[1] = NoRet
        /\ decomp_res[1] = NoRet
        /\ mpc[1] # "returned"
        /\ ~ENABLED Next => (pc[1] = "raised" /\ mpc[1] = "raised" /\ exc[1] # "")

\* C10 witness: a parallel call has raised the NameError of one task while
\* another task was still not finished, and main has passed it on
C10_Witness ==
    /\ TaskRaises(cfg[1]) /\ cfg[1].multiproc
    /\ mpc[1] = "raised" /\ exc[1] = "NameError"
    /\ \E k \in DOMAIN res[1] : res[1][k].st = "pending"
    /\ \E k \in DOMAIN res[1] : res[1][k].st = "NameError"

\* ------------------------------------------------------- overlapping calls
\* two sequential calls of prop_tot in one process (two threads), their
\* steps interleaved; the calls differ in their orbitals or strategy
OverlapCfgs ==
    {[BaseCfg EXCEPT !.part = pa, !.nocc = no, !.has_weights = hw] :
        pa \in {"atoms", "eda"}, no \in {[s \in Spins |-> 1], [s \in Spins |-> s + 1]},
        hw \in BOOLEAN}

InitOverlap ==
    /\ InitWith([Calls -> OverlapCfgs])
    /\ mpc = [c \in Calls |-> "start"]

NextOverlap == \E c \in Calls : SeqStep(c)

SpecOverlap == InitOverlap /\ [][NextOverlap]_vars

\* C8: the tasks of one prop_tot call read only that call's inputs: the
\* module-level names prop_atom, prop_eda and prop_bonds that each call
\* rebinds cannot change the per-unit results of an overlapping call.
C8_TasksReadOwnInputs ==
    \A c \in Calls :
        \A k \in DOMAIN res[c] :
            res[c][k].st = "ok" =>
                res[c][k] = RunTask(KernelName(cfg[c]), cfg[c], Domain(cfg[c])[k])

\* ------------------------------------------------- nuclear repulsion claims
\* sequential energy calls over the nuclear charges and places, with and
\* without an MM region, with and without weights
NucCfgs ==
    {x \in {[BaseCfg EXCEPT !.part = pa, !.charges = ch, !.pos = po, !.mm = mm,
                            !.has_weights = hw] :
               pa \in {"atoms", "bonds"}, ch \in [Atoms -> 0 .. MaxZ], po \in Places,
               mm \in BOOLEAN, hw \in BOOLEAN} :
        x.part = "bonds" => x.has_weights}

InitNuc ==
    /\ InitWith({[c \in Calls |-> IF c = 1 THEN x ELSE BaseCfg] : x \in NucCfgs})
    /\ mpc = [c \in Calls |-> IF c = 1 THEN "start" ELSE "off"]

NextNuc == SeqStep(1)

SpecNuc == InitNuc /\ [][NextNuc]_vars

\* Z_a * Z_b / r_ab in units of 1/InvUnit
PairTerm(x, a, b) ==
    x.charges[a] * x.charges[b] * (InvUnit \div Abs(x.pos[a] - x.pos[b]))

\* the sum over the other atoms b of Z_a * Z_b / r_ab; in the units of
\* the structural values, 1/(2*InvUnit), this is one half of that sum
OthersSum(x, a) == SumOver([b \in Atoms |-> PairTerm(x, a, b)], Atoms \ {a})

\* the total nuclear repulsion, every unordered pair once, in units of
\* 1/(2*InvUnit)
PairsOnce(x) ==
    2 * SumOver([pr \in Atoms \X Atoms |-> PairTerm(x, pr[1], pr[2])],
                {pr \in Atoms \X Atoms : pr[1] < pr[2]})

\* a returned energy mapping of a call without an MM region
NucReturned ==
    pc[1] = "done" /\ cfg[1].prop_type = "energy" /\ ~cfg[1].mm

ZeroWeightAtom(x, a) ==
    /\ x.nocc[0] + x.nocc[1] > 0
    /\ \A s \in Spins : \A m \in DOMAIN Weights(x)[s] : Weights(x)[s][m][a] = 0

\* an energy call of the atom strategy with weights has returned
AtomsReturned ==
    pc[1] = "done" /\ cfg[1].part = "atoms" /\ cfg[1].prop_type = "energy"
    /\ cfg[1].has_weights

\* C11 as stated: in prop_atom (energy mode) an atom whose weight is 0 for
\* every orbital of both spins is processed without error and its 'el'
\* value is 0.
C11_ZeroWeightZeroEl ==
    AtomsReturned =>
        \A a \in Atoms : ZeroWeightAtom(cfg[1], a) => ret[1].el[a] = 0

\* C11 amended: such an atom is processed without error and its coul,
\* exch, kin and xc values are 0; its 'el' value is what does not depend on
\* its density: half the trace of its own nuclear potential sub_nuc[a]
\* with the total density, plus its solvent energy e_solvent[a].
C11_ZeroWeightOwnNucleusOnly ==
    AtomsReturned =>
        \A a \in Atoms :
            ZeroWeightAtom(cfg[1], a) =>
                /\ ret[1].coul[a] = 0 /\ ret[1].exch[a] = 0
                /\ ret[1].kin[a] = 0 /\ ret[1].xc[a] = 0
                /\ ret[1].nuc_att[a] =
                      Trace(SubNuc(cfg[1], a), 2, Env(cfg[1]).rdm1_sum, 1)
                /\ ret[1].solvent[a] = (IF cfg[1].solv THEN ESolventInt[a] ELSE 0)
                /\ ret[1].el[a] = ret[1].nuc_att[a] + ret[1].solvent[a]

\* C11 witness: a Kohn-Sham call with occupied orbitals has returned a
\* non-zero 'el' for an atom of weight 0, next to an atom that has weight
C11_Witness ==
    /\ AtomsReturned /\ cfg[1].xc = "GGA" /\ cfg[1].nocc[0] > 0
    /\ \E a \in Atoms : ZeroWeightAtom(cfg[1], a) /\ ret[1].el[a] # 0
    /\ \E a \in Atoms : ~ZeroWeightAtom(cfg[1], a) /\ ret[1].xc[a] # 0


\* ------------------------------------------------------------ pbctools runs
InitPbc ==
    /\ InitWith({[c \in Calls |-> BaseCfg]})
    /\ mpc = [c \in Calls |-> "off"]

NextPbc ==
    \/ PbcCall
    \/ PbcCheckKpts
    \/ PbcBuild
    \/ PbcLocPart1
    \/ PbcLocPart2
    \/ PbcNl
    \/ PbcReturn

SpecPbc == InitPbc /\ [][NextPbc]_vars

\* C12: when mydf._prefer_ccdf is set or cell.omega > 0, a call of
\* get_nuc_atomic_df or get_pp_atomic_df constructs no integral builder and
\* returns no value; once past the test it has raised NotImplementedError
C12_LongRangeNotImplemented ==
    (pbc.pc # "idle" /\ (pbc.prefer_ccdf \/ pbc.omega > 0)) =>
        /\ pbc.built = <<>>
        /\ pbc.parts = {}
        /\ pbc.ret = NoRet
        /\ pbc.pc \in {"check_kpts", "test", "raised"}
        /\ pbc.pc = "raised" <=> pbc.exc = "NotImplementedError"

C12_Witness ==
    /\ pbc.fn = "get_pp_atomic_df"
    /\ ~pbc.prefer_ccdf /\ pbc.omega > 0
    /\ pbc.pc = "raised" /\ pbc.exc = "NotImplementedError"

\* ------------------------------------------------------------ calls of main
\* the configurations of main: property, strategy, reference kind, origin,
\* and the argument rdm1_eff (None by default, or an array)
Decomps ==
    [prop : {"energy", "dipole"}, part : {"atoms", "eda", "bonds"},
     ref : {"restricted", "unrestricted"}, multiproc : {FALSE},
     gauge_origin : Origins, rdm1_eff : {"None", "array"}]

InitMain ==
    /\ InitState({[c \in Calls |-> BaseCfg]},
                 {[c \in Calls |-> IF c = 1 THEN d ELSE NoDecomp] : d \in Decomps})
    /\ mpc = [c \in Calls |-> IF c = 1 THEN "main" ELSE "off"]

MainStep(c) ==
    \/ MainPropTot(c)
    \/ Setup(c)
    \/ Dispatch(c)
    \/ StartMap(c)
    \/ SeqTask(c)
    \/ MapDone(c)
    \/ Collect(c)
    \/ Return(c)
    \/ MainAssign(c)
    \/ MainRaise(c)

NextMain == MainStep(1)

SpecMain == InitMain /\ [][NextMain]_vars

\* C13: in a call of prop_tot made by main the parameter ref holds the
\* configured reference kind, and in dipole mode the origin the call reads
\* (kwargs['dipole_origin']) is there and is the configured origin
C13_OptionsReachKernel ==
    (mpc[1] \in {"prop_tot", "returned", "raised"} /\ decomp[1] # NoDecomp) =>
        /\ cfg[1].ref = decomp[1].ref
        /\ decomp[1].prop = "dipole" =>
              /\ cfg[1].has_origin
              /\ cfg[1].dipole_origin = decomp[1].gauge_origin
              /\ exc[1] # "KeyError"

\* C14: within one call of prop_tot every task is run by the one kernel
\* that was handed to the map, and that kernel is the one of part: prop_atom
\* for 'atoms', prop_eda for 'eda', prop_bonds for 'bonds'
KernelOfPart(part) ==
    IF part = "atoms" THEN "prop_atom"
    ELSE IF part = "eda" THEN "prop_eda"
    ELSE IF part = "bonds" THEN "prop_bonds" ELSE "none"

Population(x, a) ==
    Sum([s \in Spins |-> Sum([m \in DOMAIN Weights(x)[s] |-> Weights(x)[s][m][a]])])

\* C15: for each of the strategies atoms, eda and bonds the mapping a call
\* of main gets back from prop_tot holds under 'charge_atom' an array with
\* one entry per atom, the nuclear charge minus the assigned population
C15_ChargeArrayForEveryStrategy ==
    (mpc[1] = "returned" /\ decomp[1] # NoDecomp) =>
        decomp_res[1].charge_atom =
            [a \in Atoms |-> WUnit * cfg[1].charges[a] - Population(cfg[1], a)]

\* ------------------------------------------------------------ table_bonds
InitTable ==
    /\ InitWith({[c \in Calls |-> BaseCfg]})
    /\ mpc = [c \in Calls |-> "off"]

NextTable ==
    \/ TableBonds
    \/ TableRow
    \/ TableNextSpin
    \/ TableReturn

SpecTable == InitTable /\ [][NextTable]_vars

\* the row the table is to show for an orbital centred on the atoms c
RowAtomsOf(c) ==
    IF c[1] = c[2] THEN <<[sym |-> AtomSymbol(c[1]), idx |-> c[1]]>>
    ELSE <<[sym |-> AtomSymbol(c[1]), idx |-> c[1]],
           [sym |-> AtomSymbol(c[2]), idx |-> c[2]]>>

RowLengthOf(c) ==
    IF c[1] = c[2] THEN <<>>
    ELSE <<(Abs(BaseCfg.pos[c[1]] - BaseCfg.pos[c[2]]) * Bohr8 + 50) \div 100>>

\* C16: in table_bonds, energy and dipole mode, every row of spin i and
\* orbital j shows the label of the single atom cent[i][j,0] and an empty
\* bond length when the two centres are equal, and otherwise the pair
\* label and the distance of exactly these two atoms; no row fails
C16_RowsShowTheirCentres ==
    /\ tbl.exc = ""
    /\ \A k \in DOMAIN tbl.rows :
          LET r == tbl.rows[k]
              c == tbl.cent[r.spin][r.mo + 1]
          IN  r.atoms = RowAtomsOf(c) /\ r.length = RowLengthOf(c)

\* ------------------------------------------------- two-electron systems
\* one occupied orbital per spin, shared half and half by the atoms 0 and 1
HalfHalf == [a \in Atoms |-> IF a < 2 THEN WUnit \div 2 ELSE 0]

\* closed-shell two-electron calls of every method and surrounding, with
\* the nuclear charges varied
SharedCfgs ==
    {[BaseCfg EXCEPT !.part = pa, !.ref = me.ref, !.xc = me.xc, !.mm = su.mm,
                     !.solv = su.solv, !.wbase = HalfHalf, !.charges = ch] :
        pa \in {"atoms", "eda"}, me \in Methods, su \in Surroundings,
        ch \in [Atoms -> 1 .. MaxZ]}

InitShared ==
    /\ InitWith({[c \in Calls |-> IF c = 1 THEN x ELSE BaseCfg] : x \in SharedCfgs})
    /\ mpc = [c \in Calls |-> IF c = 1 THEN "start" ELSE "off"]

NextShared == SeqStep(1)

SpecShared == InitShared /\ [][NextShared]_vars

\* the atom strategy has returned for a two-electron call whose orbitals
\* lie half on atom 0 and half on atom 1
SharedReturned ==
    /\ pc[1] = "done" /\ cfg[1].part = "atoms" /\ cfg[1].prop_type = "energy"
    /\ cfg[1].nocc = [s \in Spins |-> 1]
    /\ \A s \in Spins : Weights(cfg[1])[s][0] = HalfHalf

\* C17 as stated: the two coul values are equal, the kin values sum to the
\* kinetic energy of the total density, and charge_atom is [0, 0]
C17_SharedOrbitalNeutralAtoms ==
    SharedReturned =>
        /\ ret[1].coul[0] = ret[1].coul[1]
        /\ Sum(ret[1].kin) = Trace(KinInt, 2, Env(cfg[1]).rdm1_sum, 2)
        /\ ret[1].charge_atom[0] = 0 /\ ret[1].charge_atom[1] = 0

\* C17 amended: the two coul values are equal, the kin values sum to the
\* kinetic energy of the total density, and charge_atom of each of the two
\* atoms is its nuclear charge minus 1 (in units of 1/WUnit)
C17_SharedOrbitalChargeMinusOne ==
    SharedReturned =>
        /\ ret[1].coul[0] = ret[1].coul[1]
        /\ Sum(ret[1].kin) = Trace(KinInt, 2, Env(cfg[1]).rdm1_sum, 2)
        /\ \A a \in {0, 1} : ret[1].charge_atom[a] = WUnit * (cfg[1].charges[a] - 1)

C17_Witness ==
    /\ SharedReturned
    /\ cfg[1].charges[0] = 1 /\ cfg[1].charges[1] = 1
    /\ ret[1].coul[0] # 0 /\ Sum(ret[1].kin) # 0
    /\ ret[1].charge_atom[0] = 0 /\ ret[1].charge_atom[1] = 0

\* ------------------------------------------------- bonds against atoms
\* the sum of 'el' over the (spin, orbital) entries of a bonds mapping r
BondsElSum(x, r) ==
    Sum([s \in Spins |-> Sum([m \in DOMAIN RepIdx(x)[s] |-> r.el[s][m]])])

\* the sum of 'el' over the atoms of the atom-weighted strategy, run on the
\* inputs of x
AtomsElSum(x) ==
    LET xa == [x EXCEPT !.part = "atoms"]
    IN  Sum([a \in Atoms |-> PropAtom(xa, Env(xa), a).val.el])

\* C18: in energy mode, with every occupied spin-orbital listed once in
\* rep_idx and the weights of every orbital summing to 1, the 'el' entries
\* of the bonds strategy sum to the same value as the 'el' values of the
\* atoms strategy, also with an embedding potential or a solvent energy
C18_BondsSumEqualsAtomsSum ==
    (pc[1] = "done" /\ cfg[1].part = "bonds" /\ cfg[1].prop_type = "energy"
     /\ cfg[1].has_weights /\ WeightsComplete(cfg[1]))
    => BondsElSum(cfg[1], ret[1]) = AtomsElSum(cfg[1])

\* ------------------------------------------------------------ pool size
\* C19: the pool of a parallel call, for the atom domain and for the bond
\* domain, has min(number of tasks, available threads) workers, never more
\* workers than tasks
C19_PoolWithinTasks ==
    \A c \in Calls :
        (pc[c] = "pool" /\ cfg[c].multiproc) =>
            /\ processes[c] <= NTasks(cfg[c])
            /\ processes[c] = (IF NTasks(cfg[c]) < cfg[c].nthreads
                               THEN NTasks(cfg[c]) ELSE cfg[c].nthreads)

\* ------------------------------------------------- nuclear attraction
\* the sum over the atoms of the atomic potentials sub_nuc
SubNucSum(x) == MatSumOver([k \in Atoms |-> SubNuc(x, k)], Atoms)

\* the atom's density: the weighted one of prop_atom, spin-summed
AtomDensity(x, a) == SpinSum(Rdm1Atom(x, a))

\* the value C20 states for nuc_att of atom a
NucAttOf(x, a) ==
    LET d == Env(x).rdm1_sum
    IN  (IF x.part = "atoms"
         THEN Trace(SubNucSum(x), 2, AtomDensity(x, a), 1)
         ELSE Trace(RowSel(SubNucSum(x), Select(a)), 2, RowSel(d, Select(a)), 1))
        + Trace(SubNuc(x, a), 2, d, 1)

NucAttReturned ==
    pc[1] = "done" /\ cfg[1].part \in {"atoms", "eda"} /\ cfg[1].prop_type = "energy"

C21_ElIsSumOfSixTerms ==
    (pc[1] = "done" /\ cfg[1].part \in {"atoms", "eda"} /\ cfg[1].prop_type = "energy")
    => \A a \in Atoms :
          /\ ret[1].el[a] = ret[1].coul[a] + ret[1].exch[a] + ret[1].kin[a]
                            + ret[1].nuc_att[a] + ret[1].solvent[a] + ret[1].xc[a]
          /\ ret[1].struct[a] = ENuc(cfg[1])[a]

C21_Witness ==
    /\ pc[1] = "done" /\ cfg[1].part = "eda" /\ cfg[1].solv /\ cfg[1].xc = "GGA"
    /\ \A a \in Atoms :
          /\ ret[1].solvent[a] # 0 /\ ret[1].xc[a] # 0 /\ ret[1].struct[a].n # 0
          /\ ret[1].el[a] = ret[1].coul[a] + ret[1].exch[a] + ret[1].kin[a]
                            + ret[1].nuc_att[a] + ret[1].solvent[a] + ret[1].xc[a]

\* ------------------------------------------------ structural term of bonds
\* the tasks of a bonds call that have finished returned 'el' and nothing else
BondTasksWriteElOnly(c) ==
    \A k \in DOMAIN res[c] : res[c][k].st = "ok" => DOMAIN res[c][k].val = {"el"}

\* C22: in bonds mode the returned 'struct' is the per-atom nuclear array
\* of the whole system (nuclear repulsion in energy mode, charge times
\* position in dipole mode): one entry per atom whatever rep_idx is, and no
\* per-orbital task writes to it
C22_BondsStructIsNuclearArray ==
    (cfg[1].part = "bonds" /\ pc[1] \in {"seq", "pool", "collect", "done"}) =>
        /\ BondTasksWriteElOnly(1)
        /\ pc[1] = "done" =>
              /\ DOMAIN ret[1].struct = Atoms
              /\ ret[1].struct = (IF cfg[1].prop_type = "energy" THEN ENuc(cfg[1])
                                  ELSE DipNuc(cfg[1]))
              /\ ret[1].struct = PropNucRep([cfg[1] EXCEPT !.grouped = ~@])

C22_Witness ==
    /\ cfg[1].part = "bonds" /\ pc[1] = "done" /\ cfg[1].prop_type = "dipole"
    /\ cfg[1].grouped /\ cfg[1].nocc[0] = MaxOcc /\ cfg[1].nocc[1] = MaxOcc
    /\ ret[1].struct = DipNuc(cfg[1])
    /\ \E a \in Atoms : ret[1].struct[a][0] # 0

\* the density of the task's orbital(s): task k of a bonds call
BondTaskDensity(x, k) == Rdm1Orb(x, Domain(x)[k].spin, Domain(x)[k].orb)

\* the four terms of C23 for task k, each traced on its own
BondTaskTerms(x, k) ==
    LET d == BondTaskDensity(x, k)
        s == Domain(x)[k].spin
        e == Env(x)
        rho == MakeRhoInterm2(MakeRhoInterm1(AoVal(x.xc), d, x.xc), AoVal(x.xc), x.xc)
    IN  [two_el |-> Trace(VjSum, 2, d, 1) - Trace(VkInt(s), 2, d, 1),
         one_el |-> Trace(KinInt, 2, d, 2) + Trace(e.nuc, 2, d, 2),
         embed  |-> IF x.mm THEN Trace(MmPotInt, 2, d, 2) ELSE 0,
         xc     |-> IF x.xc = "" THEN 0
                    ELSE EXc(e.eps_xc, GridWeightsInt, rho, RhoNdim(x.xc))]

C24_FailedCallReached ==
    /\ pc[1] = "raised" /\ exc[1] # "" /\ Len(ranby[1]) > 0 /\ written[1] = {}

\* ------------------------------------------- the periodic helpers alone
NextDim ==
    \/ DimCall
    \/ EwaldStart
    \/ EwaldGSpace
    \/ Part1Start
    \/ BuildMesh
    \/ BuildCells
    \/ Part1Vloc
    \/ Part1LongRange

SpecDim == InitPbc /\ [][NextDim]_vars

\* a call of one of the three periodic helpers has ended
DimCallEnded == hcall.fn \in DimFns /\ hcall.pc \in {"returned", "raised"}

\* C25 as stated: each of the three helpers raises NotImplementedError for
\* a cell of dimension 2 whose low_dim_ft_type is not 'inf_vacuum', and
\* get_pp_loc_part1 raises it for a cell of dimension 0
C25_UnsupportedDimensionRejected ==
    DimCallEnded =>
        /\ (hcall.dimension = 2 /\ hcall.low_dim_ft_type # "inf_vacuum") =>
              (hcall.pc = "raised" /\ hcall.exc = "NotImplementedError")
        /\ (hcall.fn = "get_pp_loc_part1" /\ hcall.dimension = 0) =>
              (hcall.pc = "raised" /\ hcall.exc = "NotImplementedError")

\* C25 amended: the same, for ewald_e_nuc only when the cell has atoms (for
\* a cell without atoms ewald_e_nuc returns 0 before it looks at the
\* dimension)
C25_UnsupportedDimensionRejectedIfAtoms ==
    (DimCallEnded /\ (hcall.fn = "ewald_e_nuc" => hcall.natm > 0)) =>
        /\ (hcall.dimension = 2 /\ hcall.low_dim_ft_type # "inf_vacuum") =>
              (hcall.pc = "raised" /\ hcall.exc = "NotImplementedError" /\ hcall.ret = "")
        /\ (hcall.fn = "get_pp_loc_part1" /\ hcall.dimension = 0) =>
              (hcall.pc = "raised" /\ hcall.exc = "NotImplementedError" /\ hcall.ret = "")

C25_Witness ==
    /\ hcall.fn = "get_pp_loc_part1" /\ hcall.pc = "raised"
    /\ hcall.exc = "NotImplementedError"
    /\ hcall.dimension = 2 /\ hcall.low_dim_ft_type = "analytic_2d_1" /\ hcall.rs_cell

\* ------------------------------------------------------- _trace alone
NextTrace ==
    \/ TraceCall
    \/ TraceReturn

SpecTrace == InitPbc /\ [][NextTrace]_vars

\* the sum over all pairs (p, q) of op[p,q] * rdm1[p,q]
PairSum(op, rdm1) == Sum([t \in AOs \X AOs |-> op[t[1]][t[2]] * rdm1[t[1]][t[2]]])

\* twice the scaling the caller asked for: 1. when none was given
AskedScaling2(h) == IF h.scaling.given THEN h.scaling.twice ELSE 2

\* C26: _trace returns scaling times the sum over p, q of op[p,q]*rdm1[p,q]
\* for a single matrix, and for a stack of matrices the vector of these
\* numbers, one per matrix of the stack; scaling is 1 when it is not given
C26_TraceIsScaledPairSum ==
    (hcall.fn = "_trace" /\ hcall.pc = "returned") =>
        IF hcall.ndim = 2
        THEN hcall.ret = [val |-> AskedScaling2(hcall) * PairSum(hcall.op, hcall.rdm1)]
        ELSE /\ DOMAIN hcall.ret.val = Xyz
             /\ \A x \in Xyz :
                   hcall.ret.val[x] = AskedScaling2(hcall) * PairSum(hcall.op[x], hcall.rdm1)

C26_Witness ==
    /\ hcall.fn = "_trace" /\ hcall.pc = "returned" /\ hcall.ndim = 3
    /\ ~hcall.scaling.given
    /\ \A x \in Xyz : hcall.ret.val[x] # 0
    /\ \E x \in Xyz : PairSum(hcall.op[x], hcall.rdm1) #
                         Contract2AsMatrixProduct(hcall.op[x], hcall.rdm1)

\* the density on the grid that prop_tot hands to the functional, summed
\* over the spins when it is a pair
UsedGridDensity(x) ==
    LET r == RhoTot(x)
        dens(v) == IF x.xc = "LDA" THEN v ELSE v[0]
    IN  IF r.pair THEN [g \in Grid |-> dens(r.rho[0])[g] + dens(r.rho[1])[g]]
        ELSE [g \in Grid |-> dens(r.rho)[g]]

\* the density on the grid of the sum of the alpha and the beta density:
\* sum over p, q of ao[g,p] * (D_alpha + D_beta)[p,q] * ao[g,q]
GridDensityOfSum(x) ==
    LET d == SpinSum(Rdm1Tot(x))
    IN  [g \in Grid |->
            Sum([t \in AOs \X AOs |-> AoValueInt[g][t[1]] * d[t[1]][t[2]] * AoValueInt[g][t[2]]])]

\* C27: for every reference kind, a restricted open-shell one included,
\* the density on the grid that prop_tot evaluates the functional with is
\* the density of the sum of the alpha and the beta density matrix
C27_TotalGridDensityOfBothSpins ==
    (pc[1] \notin {"idle", "setup"} /\ cfg[1].xc # "") =>
        UsedGridDensity(cfg[1]) = GridDensityOfSum(cfg[1])

\* ----------------------------------------------------- main from its entry
OrderDecomps ==
    [prop : {"energy", "dipole"}, part : {"atoms", "eda", "bonds", "orbs"},
     ref : {"unrestricted"}, multiproc : {FALSE}, gauge_origin : {0},
     rdm1_eff : {"None"}, rdm1_orb : {"None", "array"},
     loc : {"", "pm"}, write : {"", "cube"}]

InitOrder ==
    /\ InitState({[c \in Calls |-> BaseCfg]},
                 {[c \in Calls |-> IF c = 1 THEN d ELSE NoDecomp] : d \in OrderDecomps})
    /\ mpc = [c \in Calls |-> IF c = 1 THEN "enter" ELSE "off"]

OrderStep(c) ==
    \/ MainSanity(c)
    \/ MainOrbitals(c)
    \/ MainLoc(c)
    \/ MainAssignRdm1s(c)
    \/ MainPropTot(c)
    \/ Setup(c)
    \/ Dispatch(c)
    \/ StartMap(c)
    \/ SeqTask(c)
    \/ MapDone(c)
    \/ Collect(c)
    \/ Return(c)
    \/ MainAssign(c)
    \/ MainRaise(c)
    \/ MainAfterProp(c)
    \/ MainWrite(c)
    \/ MainReturn(c)

NextOrder == OrderStep(1)

SpecOrder == InitOrder /\ [][NextOrder]_vars

\* the places of a call in the list of the calls main has made
PlacesOf(name) == {i \in DOMAIN mainrun[1].steps : mainrun[1].steps[i] = name}

\* every call named a comes before every call named b
AllBefore(a, b) == \A i \in PlacesOf(a), j \in PlacesOf(b) : i < j

\* C28: main calls sanity_check first; loc_orbs only for a non-empty
\* decomp.loc and before assign_rdm1s; prop_tot once, after both; write_rdm1
\* only for a non-empty decomp.write and after prop_tot has returned; and
\* it returns the object it stored in decomp.res
C28_MainStepsInOrder ==
    LET s == mainrun[1].steps
        d == decomp[1]
    IN  /\ s # <<>> => s[1] = "sanity_check"
        /\ Cardinality(PlacesOf("sanity_check")) <= 1
        /\ PlacesOf("loc_orbs") # {} => d.loc # ""
        /\ (d.loc # "" /\ (PlacesOf("assign_rdm1s") # {} \/ PlacesOf("prop_tot") # {}))
              => Cardinality(PlacesOf("loc_orbs")) = 1
        /\ AllBefore("loc_orbs", "assign_rdm1s")
        /\ AllBefore("loc_orbs", "prop_tot")
        /\ AllBefore("assign_rdm1s", "prop_tot")
        /\ Cardinality(PlacesOf("prop_tot")) <= 1
        /\ pc[1] # "idle" <=> PlacesOf("prop_tot") # {}
        /\ PlacesOf("write_rdm1") # {} =>
              /\ d.write # ""
              /\ AllBefore("prop_tot", "write_rdm1")
              /\ pc[1] = "done" /\ decomp_res[1] = ret[1]
              /\ Cardinality(PlacesOf("write_rdm1")) = 1
        /\ mpc[1] = "exit" =>
              /\ Cardinality(PlacesOf("prop_tot")) = 1
              /\ d.write # "" => PlacesOf("write_rdm1") # {}
              /\ mainrun[1].ret = decomp_res[1]
              /\ mainrun[1].ret = ret[1]
        /\ mpc[1] # "exit" => mainrun[1].ret = NoRun.ret

C28_Witness ==
    /\ mpc[1] = "exit" /\ decomp[1].loc # "" /\ decomp[1].write # ""
    /\ decomp[1].part = "atoms"
    /\ mainrun[1].steps = <<"sanity_check", "mf_info", "loc_orbs", "assign_rdm1s",
                            "prop_tot", "write_rdm1">>
    /\ mainrun[1].ret = ret[1] /\ ret[1] # NoRet

\* --------------------------------------------------------- _ref alone
NextRef ==
    \/ RefCall
    \/ RefTest
    \/ RefAssign
    \/ RefReturn

SpecRef == InitPbc /\ [][NextRef]_vars

\* the six labels
RefLabels == {"RHF", "RKS", "ROHF", "ROKS", "UHF", "UKS"}

\* C29: _ref returns one of six labels, fixed by decomp.ref, mol.spin and
\* decomp.xc: restricted with spin 0 gives RHF for an empty xc and RKS
\* otherwise, restricted with another spin ROHF or ROKS, and every other
\* ref UHF or UKS whatever the spin
C29_RefLabelOfSix ==
    (hcall.fn = "_ref" /\ hcall.pc = "returned") =>
        /\ hcall.ret \in RefLabels
        /\ (hcall.ref = "restricted" /\ hcall.spin = 0) =>
              hcall.ret = (IF hcall.xc = "" THEN "RHF" ELSE "RKS")
        /\ (hcall.ref = "restricted" /\ hcall.spin # 0) =>
              hcall.ret = (IF hcall.xc = "" THEN "ROHF" ELSE "ROKS")
        /\ hcall.ref # "restricted" =>
              hcall.ret = (IF hcall.xc = "" THEN "UHF" ELSE "UKS")

C29_Witness ==
    /\ hcall.fn = "_ref" /\ hcall.pc = "returned"
    /\ hcall.ref = "restricted" /\ hcall.spin = 2 /\ hcall.xc = "pbe"
    /\ hcall.ret = "ROKS"

\* the numbers of the k-points of the finished call
KptsOf(p) == 0 .. (NKpts(p) - 1)

\* C30: get_pp_atomic_df returns (total, part1, rest) with
\* total = part1 + rest element by element, for a list of k-points and for
\* a single k-point; for a single k-point the three are the entries of
\* index 0 of the arrays over the k-points
C30_PpTotalIsPart1PlusRest ==
    (pbc.fn = "get_pp_atomic_df" /\ pbc.pc = "done") =>
        LET v == pbc.ret.value
            a == pbc.vals
        IN  /\ Len(v) = 3
            /\ IF pbc.is_single_kpt
               THEN /\ v[1] = v[2] + v[3]
                    /\ v[2] = a.loc1[0]
                    /\ v[3] = a.loc2[0] + a.nl[0]
                    /\ v[1] = a.loc1[0] + a.loc2[0] + a.nl[0]
               ELSE /\ \A i \in 1 .. 3 : DOMAIN v[i] = KptsOf(pbc)
                    /\ \A k \in KptsOf(pbc) :
                          /\ v[1][k] = v[2][k] + v[3][k]
                          /\ v[2][k] = a.loc1[k]
                          /\ v[3][k] = a.loc2[k] + a.nl[k]

C30_Witness ==
    /\ pbc.fn = "get_pp_atomic_df" /\ pbc.pc = "done"
    /\ ~pbc.is_single_kpt /\ NKpts(pbc) = MaxKpts
    /\ \A k \in KptsOf(pbc) : pbc.vals.nl[k] # 0 /\ pbc.ret.value[1][k] # 0

\* the same for a single k-point
C30_SingleKptReached ==
    /\ pbc.fn = "get_pp_atomic_df" /\ pbc.pc = "done" /\ pbc.is_single_kpt
    /\ pbc.vals.nl[0] # 0 /\ pbc.ret.value[1] = pbc.vals.loc1[0] + pbc.ret.value[3]
====
